---- MODULE Spec2Model ----
(***************************************************************************)
(* A model of the micro-observables engine (src/src/observable.ts, the     *)
(* Observable / WritableObservable / DerivedObservable classes that start  *)
(* at line 294 of that file).                                              *)
(*                                                                         *)
(* The engine is synchronous and re-entrant: get() calls refresh(), which  *)
(* calls evaluate(), which runs a compute function that calls get() on     *)
(* other cells.  Every method is therefore an operator that takes the      *)
(* whole engine state s (a record) and returns the state it leaves behind  *)
(* together with its return value.  One action of the model is one call    *)
(* made by the application: it runs the operator on the current state      *)
(* and installs the result.                                                *)
(***************************************************************************)
EXTENDS Integers, Sequences, FiniteSets, TLC

VARIABLES
  graph,             \* cell -> how it was constructed (never changes)
  app,               \* what the application does with the cells (never changes)
  val,               \* Observable._val
  listeners,         \* Observable._listeners
  inputs,            \* Observable._inputs
  outputs,           \* Observable._outputs
  revision,          \* Observable._revision
  refreshRevision,   \* Observable._refreshRevision
  attached,          \* Observable._attached
  dirty,             \* Observable._dirty
  next,              \* WritableObservable._next
  memoized,          \* DerivedObservable._memoized
  prevInputs,        \* DerivedObservable._prevInputs (a Map, in insertion order)
  dirtyObservables,  \* module variable dirtyObservables
  batchDepth,        \* module variable batchDepth
  globalRevision,    \* module variable globalRevision
  unsubscribers,     \* the closures returned by subscribe()
  store,             \* the state of the Redux store (store.getState())
  storeListeners,    \* the store's listeners: the cells whose onAttach() subscribed
  storeUnsubscribe,  \* ReduxObservable._unsubscribe is defined
  promises,          \* the promises returned by toPromise()
  items,             \* the storage of the persistor: MemoryStorage.items
  persistor,         \* createPersist's options and closure variables:
                     \* migratePromise, loadPromises, savePromises
  tasks,             \* the position of each pending async function of the
                     \* persistor: migrate(), persistSingle(), flush(), waitForReady()
  journal,           \* history: migrations run, hydrations made, saves made
  hooks,             \* history: the onAttach() / onDetach() calls made on a
                     \* ReduxObservable since its construction
  fired,             \* history: listener invocations made by the last call
  ran,               \* history: compute functions run by the last call
  pre                \* history: every cell's value and globalRevision when the open
                     \* batch began, and whether the listeners are still the same

vars == <<graph, app, val, listeners, inputs, outputs, revision, refreshRevision,
          attached, dirty, next, memoized, prevInputs, dirtyObservables,
          batchDepth, globalRevision, unsubscribers, store, storeListeners,
          storeUnsubscribe, promises, items, persistor, tasks, journal, hooks,
          fired, ran, pre>>

(***************************************************************************)
(* Bounds of the model.                                                    *)
(***************************************************************************)
MaxVal == 1            \* cell values are 0..MaxVal
MaxRevision == 3       \* writes are made while globalRevision < MaxRevision
MaxBatchDepth == 1     \* batch() calls nest at most this deep
MaxSubscriptions == 2  \* subscribe() is called at most this many times
MaxMigrations == 2     \* the persistor is created with this many migrations

UNSET == -1

Values == 0..MaxVal

Cells == DOMAIN graph

IsWritable(c) == graph[c].type = "writable"

IsDerived(c) == graph[c].type = "derived"

Writables == {c \in Cells : IsWritable(c)}

Deriveds == {c \in Cells : IsDerived(c)}

IsAdapter(c) == graph[c].type = "adapter"

Adapters == {c \in Cells : IsAdapter(c)}

(***************************************************************************)
(* Constructors: observable(val) and derived(compute).  A compute function *)
(* is one of four shapes over the cells named in args:                     *)
(*   "sum": args[1].get() + ... + args[n].get()                            *)
(*   "pos": args[1].get() > 0 ? 1 : 0                                      *)
(*   "ite": args[1].get() ? args[2].get() : args[3].get()                  *)
(*   "guarded": if (args[1].get()) throw new Error(); return args[2].get() *)
(* A throw, of a compute function or of a listener, sets the state's       *)
(* thrown flag, and every caller up to the application returns at once.    *)
(***************************************************************************)
observable(v) ==
  [type |-> "writable", defaultVal |-> v, fn |-> "none", args |-> <<>>,
   equalityFn |-> "none"]

derived(f, a) ==
  [type |-> "derived", defaultVal |-> UNSET, fn |-> f, args |-> a,
   equalityFn |-> "none"]

\* reduxObservable(store, (state) => state)
reduxObservable ==
  [type |-> "adapter", defaultVal |-> UNSET, fn |-> "select", args |-> <<>>,
   equalityFn |-> "none"]

\* the cell constructed with options = { equalityFn }; the one equalityFn of
\* the model is "sign": (a, b) => (a > 0) === (b > 0)
withEqualityFn(cell, eq) == [cell EXCEPT !.equalityFn = eq]

equalityFn(this, a, b) ==
  IF graph[this].equalityFn = "sign" THEN (a > 0) = (b > 0) ELSE a = b

(***************************************************************************)
(* The engine state as one record, and its installation as the next state. *)
(* Some fields live for the time of one call only: thrown, set while an    *)
(* exception propagates; touched, the assignments the call has made to     *)
(* globalRevision and to dirtyObservables, each with the batchDepth it was *)
(* made at; onGet, the static hook Observable.onGet, which holds the cell  *)
(* whose evaluate() installed its closure; tracked, the evaluations made,  *)
(* each with the hook it found and the hook it left; steps, the calls of   *)
(* refresh() the flush loops have made and the calls of reset() the        *)
(* listeners have made, in order.                                          *)
(***************************************************************************)
\* Observable.onGet is undefined
NoHook == "undefined"

State ==
  [val |-> val, listeners |-> listeners, inputs |-> inputs, outputs |-> outputs,
   revision |-> revision, refreshRevision |-> refreshRevision,
   attached |-> attached, dirty |-> dirty, next |-> next, memoized |-> memoized,
   prevInputs |-> prevInputs, dirtyObservables |-> dirtyObservables,
   batchDepth |-> batchDepth, globalRevision |-> globalRevision,
   unsubscribers |-> unsubscribers, store |-> store,
   storeListeners |-> storeListeners, storeUnsubscribe |-> storeUnsubscribe,
   promises |-> promises, items |-> items, persistor |-> persistor,
   tasks |-> tasks, journal |-> journal, hooks |-> hooks, fired |-> <<>>,
   ran |-> <<>>, thrown |-> FALSE, touched |-> {}, onGet |-> NoHook,
   tracked |-> <<>>, steps |-> <<>>]

Install(s) ==
  /\ val' = s.val
  /\ listeners' = s.listeners
  /\ inputs' = s.inputs
  /\ outputs' = s.outputs
  /\ revision' = s.revision
  /\ refreshRevision' = s.refreshRevision
  /\ attached' = s.attached
  /\ dirty' = s.dirty
  /\ next' = s.next
  /\ memoized' = s.memoized
  /\ prevInputs' = s.prevInputs
  /\ dirtyObservables' = s.dirtyObservables
  /\ batchDepth' = s.batchDepth
  /\ globalRevision' = s.globalRevision
  /\ unsubscribers' = s.unsubscribers
  /\ store' = s.store
  /\ storeListeners' = s.storeListeners
  /\ storeUnsubscribe' = s.storeUnsubscribe
  /\ promises' = s.promises
  /\ items' = s.items
  /\ persistor' = s.persistor
  /\ tasks' = s.tasks
  /\ journal' = s.journal
  /\ hooks' = s.hooks
  /\ fired' = s.fired
  /\ ran' = s.ran
  /\ UNCHANGED <<graph, app>>

(***************************************************************************)
(* Array and Map helpers with JavaScript's semantics.                      *)
(***************************************************************************)
\* Array.prototype.indexOf, 1-based; 0 stands for JavaScript's -1.
indexOf(seq, x) ==
  IF \E i \in 1..Len(seq) : seq[i] = x
  THEN CHOOSE i \in 1..Len(seq) : seq[i] = x /\ \A j \in 1..(i - 1) : seq[j] # x
  ELSE 0

removeAt(seq, i) == SubSeq(seq, 1, i - 1) \o SubSeq(seq, i + 1, Len(seq))

\* arr.splice(-1, 1) whatever x is
spliceLast(seq, x) == IF Len(seq) = 0 THEN seq ELSE removeAt(seq, Len(seq))

\* arr.splice(arr.indexOf(x), 1): splice(-1, 1) removes the LAST element.
spliceIndexOf(seq, x) ==
  LET i == indexOf(seq, x)
  IN  IF i > 0 THEN removeAt(seq, i)
      ELSE IF Len(seq) = 0 THEN seq
      ELSE removeAt(seq, Len(seq))

\* Map.has / Map.set / Map.delete on a Map<Observable, Revision> kept as the
\* sequence of its entries in insertion order.
mapHas(m, k) == \E i \in 1..Len(m) : m[i].input = k

mapSet(m, k, r) ==
  IF mapHas(m, k)
  THEN [i \in 1..Len(m) |-> IF m[i].input = k THEN [input |-> k, revision |-> r] ELSE m[i]]
  ELSE Append(m, [input |-> k, revision |-> r])

mapDelete(m, k) == SelectSeq(m, LAMBDA e : e.input # k)

mapKeys(m) == [i \in 1..Len(m) |-> m[i].input]

\* the elements of a JavaScript array, as a set
Elems(seq) == {seq[i] : i \in 1..Len(seq)}

RECURSIVE refresh(_, _), evaluate(_, _), get(_, _), readAll(_, _, _, _, _),
          inputsHaveChanged(_, _, _), attachInputs(_, _), attachAll(_, _, _, _),
          detachInputs(_, _), detachAll(_, _, _, _), addToBatch(_, _),
          addOutputsToBatch(_, _, _), flush(_, _, _), callListeners(_, _, _, _, _, _),
          addInputs(_, _, _, _, _), removeInputs(_, _, _, _), onGet(_, _, _, _, _),
          inputChecked(_, _, _), flushOne(_, _, _, _), compute(_, _), reset(_, _)

(***************************************************************************)
(* Observable.attachInput / detachInput / addInput / removeInput           *)
(***************************************************************************)
attachInput(s, this, input) ==
  [s EXCEPT !.outputs[input] = Append(@, this)]

detachInput(s, this, input) ==
  [s EXCEPT !.outputs[input] = spliceIndexOf(@, this)]

addInput(s, this, input) ==
  LET s1 == [s EXCEPT !.inputs[this] = Append(@, input)]
  IN  IF s1.attached[this] THEN attachInput(s1, this, input) ELSE s1

removeInput(s, this, input) ==
  LET s1 == [s EXCEPT !.inputs[this] = spliceIndexOf(@, input)]
  IN  IF s1.attached[this] THEN detachInput(s1, this, input) ELSE s1

isObserved(s, this) == Len(s.listeners[this]) > 0 \/ Len(s.outputs[this]) > 0

(***************************************************************************)
(* Observable.refresh                                                      *)
(***************************************************************************)
couldHaveChanged(s, this) == ~s.attached[this] \/ s.dirty[this]

\* refresh() taking every evaluated value for a new one
differsAlways(s, this, v) == TRUE

\* this._val !== val && (!equalityFn || !equalityFn(this._val, val))
differs(s, this, v) ==
  /\ s.val[this] # v
  /\ (graph[this].equalityFn = "none" \/ ~equalityFn(this, s.val[this], v))

\* what refresh() does with the value evaluate() returned
refreshed(this, wasUnset, e) ==
  IF e.st.thrown THEN [st |-> e.st, ret |-> FALSE]
  ELSE IF wasUnset
  THEN [st |-> [e.st EXCEPT !.val[this] = e.ret,
                            !.revision[this] = e.st.globalRevision],
        ret |-> FALSE]
  ELSE IF differs(e.st, this, e.ret)
  THEN [st |-> [e.st EXCEPT !.val[this] = e.ret,
                            !.revision[this] = e.st.globalRevision],
        ret |-> TRUE]
  ELSE [st |-> e.st, ret |-> FALSE]

refresh(s, this) ==
  IF s.refreshRevision[this] = s.globalRevision
  THEN [st |-> s, ret |-> FALSE]
  ELSE IF s.val[this] = UNSET \/ couldHaveChanged(s, this)
  THEN refreshed(this, s.val[this] = UNSET,
                 evaluate([s EXCEPT !.refreshRevision[this] = s.globalRevision], this))
  ELSE [st |-> [s EXCEPT !.refreshRevision[this] = s.globalRevision], ret |-> FALSE]

\* get() returning the cached value without refreshing it first
getCached(s, this) == [st |-> s, ret |-> s.val[this]]

(***************************************************************************)
(* Observable.get.  The onGet hook is the caller's: the compute function   *)
(* that called get() records the cell and its revision (see compute).      *)
(***************************************************************************)
\* return this._val as T, r being what refresh() left
returned(this, r) == [st |-> r.st, ret |-> r.st.val[this]]

get(s, this) == returned(this, refresh(s, this))

\* evaluate() preferring the current value to the pending one
evaluateWritableCurrent(s, this) ==
  [st |-> [s EXCEPT !.next[this] = UNSET],
   ret |-> IF s.val[this] # UNSET THEN s.val[this]
           ELSE IF s.next[this] # UNSET THEN s.next[this]
           ELSE graph[this].defaultVal]

(***************************************************************************)
(* WritableObservable.evaluate                                             *)
(***************************************************************************)
evaluateWritable(s, this) ==
  LET nxt == s.next[this]
  IN  [st |-> [s EXCEPT !.next[this] = UNSET],
       ret |-> IF nxt # UNSET THEN nxt
               ELSE IF s.val[this] # UNSET THEN s.val[this]
               ELSE graph[this].defaultVal]

(***************************************************************************)
(* The compute function of a derived cell, run with onGet installed: it    *)
(* returns the value and the Map of the cells it called get() on.          *)
(***************************************************************************)
\* the number of get() calls one run of the compute function makes
Reads(d) == IF d.fn \in {"ite", "guarded"} THEN 2 ELSE Len(d.args)

\* the compute function throws after the get() calls that returned acc
throws(d, acc) == d.fn = "guarded" /\ Len(acc) = 1 /\ acc[1] # 0

\* the cell its i-th get() call is made on, acc being the values read so far
argAt(d, i, acc) ==
  IF d.fn = "guarded" THEN d.args[i]
  ELSE IF d.fn = "ite" /\ i = 2
  THEN (IF acc[1] # 0 THEN d.args[2] ELSE d.args[3])
  ELSE d.args[i]

\* Observable.onGet?.(input) at the end of the i-th get() call of this
\* cell's compute function, g being what refresh() left and reads the Map
\* inputs of this evaluation.  The closure called is the one installed: it
\* does inputs.set(input, input._revision) on the Map of its own evaluation,
\* which for an evaluation that has ended is that cell's _prevInputs.
onGet(this, i, acc, reads, g) ==
  IF g.st.thrown THEN [st |-> g.st, vals |-> acc, reads |-> reads]
  ELSE IF g.st.onGet = this
  THEN readAll(g.st, this, i + 1, Append(acc, g.ret),
               mapSet(reads, argAt(graph[this], i, acc),
                      g.st.revision[argAt(graph[this], i, acc)]))
  ELSE IF g.st.onGet = NoHook
  THEN readAll(g.st, this, i + 1, Append(acc, g.ret), reads)
  ELSE readAll([g.st EXCEPT !.prevInputs[g.st.onGet] =
                  mapSet(@, argAt(graph[this], i, acc),
                         g.st.revision[argAt(graph[this], i, acc)])],
               this, i + 1, Append(acc, g.ret), reads)

readAll(s, this, i, acc, reads) ==
  IF throws(graph[this], acc)
  THEN [st |-> [s EXCEPT !.thrown = TRUE], vals |-> acc, reads |-> reads]
  ELSE IF i > Reads(graph[this]) THEN [st |-> s, vals |-> acc, reads |-> reads]
  ELSE onGet(this, i, acc, reads, get(s, argAt(graph[this], i, acc)))

Sum(vs) == IF Len(vs) = 0 THEN 0
           ELSE IF Len(vs) = 1 THEN vs[1]
           ELSE IF Len(vs) = 2 THEN vs[1] + vs[2]
           ELSE vs[1] + vs[2] + vs[3]

\* what the compute function returns, from the values its get() calls returned
result(d, vals) ==
  IF d.fn \in {"ite", "guarded"} THEN vals[2]
  ELSE IF d.fn = "pos" THEN (IF vals[1] > 0 THEN 1 ELSE 0)
  ELSE Sum(vals)

\* the finally clause clearing the hook: Observable.onGet = undefined
clearOnGet(s, this, prevOnGet) ==
  [s EXCEPT !.onGet = NoHook,
            !.tracked = Append(@, [cell |-> this, before |-> prevOnGet, after |-> NoHook])]

\* finally { Observable.onGet = prevOnGet; }
restoreOnGet(s, this, prevOnGet) ==
  [s EXCEPT !.onGet = prevOnGet,
            !.tracked = Append(@, [cell |-> this, before |-> prevOnGet, after |-> prevOnGet])]

\* const val = this._compute(), r being what its get() calls left; nothing
\* reads the hook between this line and the finally clause
computed(this, prevOnGet, r) ==
  [st |-> restoreOnGet([r.st EXCEPT !.ran = Append(@, [cell |-> this,
                                                       read |-> mapKeys(r.reads),
                                                       vals |-> r.vals])],
                       this, prevOnGet),
   ret |-> IF r.st.thrown THEN UNSET ELSE result(graph[this], r.vals),
   reads |-> r.reads]

\* const prevOnGet = Observable.onGet; Observable.onGet = (input) => ...
compute(s, this) ==
  computed(this, s.onGet, readAll([s EXCEPT !.onGet = this], this, 1, <<>>, <<>>))

(***************************************************************************)
(* DerivedObservable.evaluate                                              *)
(***************************************************************************)
\* the loop over this._prevInputs, from entry i on
inputsHaveChanged(s, prev, i) ==
  IF i > Len(prev) THEN [st |-> s, ret |-> FALSE]
  ELSE inputChecked(prev, i, refresh(s, prev[i].input))

\* if (input._revision !== revision), r being what input.refresh() left
inputChecked(prev, i, r) ==
  IF r.st.thrown THEN [st |-> r.st, ret |-> FALSE]
  ELSE IF r.st.revision[prev[i].input] # prev[i].revision
  THEN [st |-> r.st, ret |-> TRUE]
  ELSE inputsHaveChanged(r.st, prev, i + 1)

\* for (const input of inputs.keys()) ...: returns the state and what is left
\* of this._prevInputs
addInputs(s, this, keys, i, prev) ==
  IF i > Len(keys) THEN [st |-> s, prev |-> prev]
  ELSE IF ~mapHas(prev, keys[i])
       THEN addInputs(addInput(s, this, keys[i]), this, keys, i + 1, prev)
       ELSE addInputs(s, this, keys, i + 1, mapDelete(prev, keys[i]))

\* for (const prevInput of this._prevInputs.keys()) this.removeInput(prevInput)
removeInputs(s, this, keys, i) ==
  IF i > Len(keys) THEN s
  ELSE removeInputs(removeInput(s, this, keys[i]), this, keys, i + 1)

\* the rewiring without its second loop: inputs no longer read are kept
rewireKeeping(s, this, reads) ==
  addInputs(s, this, mapKeys(reads), 1, s.prevInputs[this]).st

rewire(s, this, reads) ==
  LET a == addInputs(s, this, mapKeys(reads), 1, s.prevInputs[this])
  IN  removeInputs(a.st, this, mapKeys(a.prev), 1)

\* the end of evaluate(), c being what the compute function returned
\* the end of evaluate() reached although the compute function threw
memoizeThrown(this, c) ==
  [st |-> [rewire(c.st, this, c.reads) EXCEPT !.memoized[this] = c.ret,
                                              !.prevInputs[this] = c.reads],
   ret |-> c.ret]

memoize(this, c) ==
  IF c.st.thrown THEN [st |-> c.st, ret |-> UNSET]
  ELSE [st |-> [rewire(c.st, this, c.reads) EXCEPT !.memoized[this] = c.ret,
                                                   !.prevInputs[this] = c.reads],
        ret |-> c.ret]

\* evaluate() after the test of the previous inputs, which chk holds
recompute(this, chk) ==
  IF chk.st.thrown THEN [st |-> chk.st, ret |-> UNSET]
  ELSE IF ~chk.ret
  THEN [st |-> chk.st, ret |-> chk.st.memoized[this]]
  ELSE memoize(this, compute(chk.st, this))

\* evaluate() without its fast path: the compute function runs every time
evaluateDerivedAlways(s, this) == recompute(this, [st |-> s, ret |-> TRUE])

evaluateDerived(s, this) ==
  recompute(this, IF s.memoized[this] = UNSET
                  THEN [st |-> s, ret |-> TRUE]
                  ELSE inputsHaveChanged(s, s.prevInputs[this], 1))

\* ReduxObservable.evaluate: this._select(this._store.getState())
evaluateRedux(s, this) == [st |-> s, ret |-> s.store]

evaluate(s, this) ==
  IF IsWritable(this) THEN evaluateWritable(s, this)
  ELSE IF IsAdapter(this) THEN evaluateRedux(s, this)
  ELSE evaluateDerived(s, this)

(***************************************************************************)
(* Observable.attachInputs / detachInputs                                  *)
(***************************************************************************)
\* the array without the last occurrence of x: the listener that the
\* unsubscribe function of the latest store.subscribe() call removes
removeLast(seq, x) ==
  IF \E i \in 1..Len(seq) : seq[i] = x
  THEN removeAt(seq, CHOOSE i \in 1..Len(seq) :
                       seq[i] = x /\ \A j \in (i + 1)..Len(seq) : seq[j] # x)
  ELSE seq

\* onAttach(), a no-op but for a ReduxObservable:
\* this._unsubscribe = this._store.subscribe(...)
onAttach(s, this) ==
  IF s.thrown \/ ~IsAdapter(this) THEN s
  ELSE [s EXCEPT !.storeListeners = Append(@, this),
                 !.storeUnsubscribe[this] = TRUE,
                 !.hooks[this] = Append(@, "onAttach")]

\* onDetach(), a no-op but for a ReduxObservable:
\* this._unsubscribe?.(); this._unsubscribe = undefined
onDetach(s, this) ==
  IF ~IsAdapter(this) THEN s
  ELSE [s EXCEPT !.storeListeners = IF s.storeUnsubscribe[this]
                                    THEN removeLast(@, this) ELSE @,
                 !.storeUnsubscribe[this] = FALSE,
                 !.hooks[this] = Append(@, "onDetach")]

attachAll(s, this, ins, i) ==
  IF i > Len(ins) \/ s.thrown THEN s
  ELSE attachAll(attachInputs(attachInput(s, this, ins[i]), ins[i]), this, ins, i + 1)

attachInputs(s, this) ==
  IF s.attached[this] THEN s
  ELSE LET s1 == [s EXCEPT !.attached[this] = TRUE]
           s2 == attachAll(s1, this, s1.inputs[this], 1)
       IN  onAttach(IF s2.thrown THEN s2 ELSE refresh(s2, this).st, this)

detachAll(s, this, ins, i) ==
  IF i > Len(ins) THEN s
  ELSE LET s1 == detachInput(s, this, ins[i])
           s2 == IF ~isObserved(s1, ins[i]) THEN detachInputs(s1, ins[i]) ELSE s1
       IN  detachAll(s2, this, ins, i + 1)

detachInputs(s, this) ==
  IF ~s.attached[this] THEN s
  ELSE onDetach(detachAll([s EXCEPT !.attached[this] = FALSE], this, s.inputs[this], 1),
                this)

(***************************************************************************)
(* Observable.subscribe and the unsubscribe closure it returns             *)
(***************************************************************************)
\* subscribe() calling the new listener with the current value
subscribeCalling(s, this, listener) ==
  LET s1 == [s EXCEPT !.listeners[this] = Append(@, listener)]
      s2 == attachInputs(s1, this)
  IN  [s2 EXCEPT !.unsubscribers =
                   Append(@, [cell |-> this, listener |-> listener, unsubscribed |-> FALSE]),
                 !.fired = Append(@, [cell |-> this, listener |-> listener,
                                      val |-> s2.val[this], prevVal |-> UNSET,
                                      saw |-> UNSET])]

\* the return of subscribe(), s being what attachInputs() left
subscribed(this, listener, s) ==
  IF s.thrown THEN s
  ELSE [s EXCEPT !.unsubscribers =
          Append(@, [cell |-> this, listener |-> listener, unsubscribed |-> FALSE])]

subscribe(s, this, listener) ==
  subscribed(this, listener,
             attachInputs([s EXCEPT !.listeners[this] = Append(@, listener)], this))

\* the unsubscribe function without its unsubscribed flag
unsubscribeUnguarded(s, u) ==
  LET this == s.unsubscribers[u].cell
      s1 == [s EXCEPT !.unsubscribers[u].unsubscribed = TRUE,
                      !.listeners[this] = spliceIndexOf(@, s.unsubscribers[u].listener)]
  IN  IF ~isObserved(s1, this) THEN detachInputs(s1, this) ELSE s1

unsubscribe(s, u) ==
  LET this == s.unsubscribers[u].cell
  IN  IF s.unsubscribers[u].unsubscribed THEN s
      ELSE LET s1 == [s EXCEPT !.unsubscribers[u].unsubscribed = TRUE,
                               !.listeners[this] = spliceIndexOf(@, s.unsubscribers[u].listener)]
           IN  IF ~isObserved(s1, this) THEN detachInputs(s1, this) ELSE s1

(***************************************************************************)
(* Observable.addToBatch                                                   *)
(***************************************************************************)
addOutputsToBatch(s, outs, i) ==
  IF i > Len(outs) THEN s
  ELSE addOutputsToBatch(addToBatch(s, outs[i]), outs, i + 1)

\* addToBatch() without the test of the dirty flag
addToBatchUnguarded(s, this) ==
  LET s1 == [s EXCEPT !.dirty[this] = TRUE]
      s2 == addOutputsToBatch(s1, s1.outputs[this], 1)
  IN  [s2 EXCEPT !.dirtyObservables = Append(@, this)]

\* the record of an assignment to a module variable
touch(s, variable) == s.touched \cup {[variable |-> variable, depth |-> s.batchDepth]}

addToBatch(s, this) ==
  IF s.dirty[this] THEN s
  ELSE LET s1 == [s EXCEPT !.dirty[this] = TRUE]
           s2 == addOutputsToBatch(s1, s1.outputs[this], 1)
       IN  [s2 EXCEPT !.dirtyObservables = Append(@, this),
                      !.touched = touch(s2, "dirtyObservables")]

(***************************************************************************)
(* A listener function.  "log" listeners only record their arguments;      *)
(* a "get" listener also calls get() on the cell it names; an              *)
(* "unsubscribe" listener also calls the unsubscribe function of the       *)
(* subscription it names; a "resolve" listener is the one toPromise()      *)
(* subscribes: it resolves the promise it names and unsubscribes itself;   *)
(* a "save" listener is the one persistSingle() subscribes: it writes the  *)
(* new value to the storage under the key it names.                        *)
(***************************************************************************)
\* the listener's record of its call, g being what its get() returned
called(this, listener, v, prevVal, g) ==
  [g.st EXCEPT !.fired = Append(@, [cell |-> this, listener |-> listener,
                                    val |-> v, prevVal |-> prevVal, saw |-> g.ret])]

\* the subscription whose unsubscribe function an "unsubscribe" listener
\* calls: the first or the second one made
subscriptionOf(listener) == IF listener.cell = "1" THEN 1 ELSE 2

\* the call of an unsubscribe function that may not have been assigned yet
cancel(s, u) == IF u <= Len(s.unsubscribers) THEN unsubscribe(s, u) ELSE s

\* JSON.stringify and JSON.parse of the integers the model stores
Digits == <<"0", "1", "2", "3", "4", "5", "6", "7", "8", "9">>

stringify(v) == Digits[v + 1]

parse(serialized) == CHOOSE v \in 0..9 : Digits[v + 1] = serialized

\* what getItem() returns for a key the storage does not hold
Missing == "undefined"

VERSION_KEY == "mo-persist.version"

\* get(key, defaultVal), from the string storage.getItem(key) returned:
\* serialized ? JSON.parse(serialized) : defaultVal
persistGet(serialized, defaultVal) ==
  IF serialized \in {Missing, ""} THEN defaultVal ELSE parse(serialized)

\* set(key, value) writing also when the persistor is read-only
persistSetAlways(s, key, value) == [s EXCEPT !.items[key] = stringify(value)]

\* set(key, value): if (!readOnly) storage.setItem(key, serialized), which
\* MemoryStorage assigns at the call
persistSet(s, key, value) ==
  IF s.persistor.readOnly THEN s ELSE [s EXCEPT !.items[key] = stringify(value)]

\* runSaveAsync(() => set(key, newValue)): the save is pending until its
\* promise settles
runSaveAsync(s, key, value) ==
  [persistSet(s, key, value) EXCEPT
     !.persistor.savePromises = Append(@, s.persistor.saves + 1),
     !.persistor.saves = @ + 1,
     !.journal.saved = @ + 1]

\* the promise a "resolve" listener belongs to
promiseOf(listener) ==
  IF listener.cell = "1" THEN 1 ELSE IF listener.cell = "2" THEN 2 ELSE 3

\* resolve(val): settles the promise unless it is settled already
resolve(s, p, v) ==
  IF s.promises[p].state = "pending"
  THEN [s EXCEPT !.promises[p].state = "resolved", !.promises[p].val = v]
  ELSE s

\* (val) => { resolve(val); unsubscribe(); }, where unsubscribe is not
\* initialized (index 0) when subscribe() threw
resolveAndUnsubscribe(s, p, v) ==
  IF s.promises[p].unsubscribe = 0
  THEN [resolve(s, p, v) EXCEPT !.thrown = TRUE]
  ELSE unsubscribe(resolve(s, p, v), s.promises[p].unsubscribe)

\* the listener's record of its call of w.reset(), made when reset() has
\* returned r: the cells that were dirty at the call, the steps and the
\* listener invocations made before the call and before its return, and
\* what it left of w
resetCalled(s, w, r) ==
  [r EXCEPT !.steps = Append(@, [op |-> "reset", cell |-> w,
                                 pending |-> {c \in Cells : s.dirty[c]},
                                 from |-> Len(s.steps), firedFrom |-> Len(s.fired),
                                 fired |-> Len(r.fired), val |-> r.val[w],
                                 dirty |-> r.dirty[w], next |-> r.next[w]])]

callListener(s, this, listener, v, prevVal) ==
  IF listener.kind = "reset"
  THEN called(this, listener, v, prevVal,
              [st |-> resetCalled(s, listener.cell, reset(s, listener.cell)),
               ret |-> UNSET])
  ELSE IF listener.kind = "save"
  THEN called(this, listener, v, prevVal,
              [st |-> runSaveAsync(s, listener.cell, v), ret |-> UNSET])
  ELSE IF listener.kind = "resolve"
  THEN called(this, listener, v, prevVal,
              [st |-> resolveAndUnsubscribe(s, promiseOf(listener), v), ret |-> UNSET])
  ELSE IF listener.kind = "get"
  THEN called(this, listener, v, prevVal, get(s, listener.cell))
  ELSE IF listener.kind = "unsubscribe"
  THEN called(this, listener, v, prevVal,
              [st |-> cancel(s, subscriptionOf(listener)), ret |-> UNSET])
  ELSE IF listener.kind = "throw"
  THEN called(this, listener, v, prevVal,
              [st |-> [s EXCEPT !.thrown = TRUE], ret |-> UNSET])
  ELSE called(this, listener, v, prevVal, [st |-> s, ret |-> UNSET])

\* the loop over the listeners reading the live array, not a copy of it
callListenersLive(s, this, snapshot, i, v, prevVal) ==
  IF i > Len(s.listeners[this]) THEN s
  ELSE callListeners(callListener(s, this, s.listeners[this][i], v, prevVal),
                     this, snapshot, i + 1, v, prevVal)

\* for (const listener of observable._listeners.slice()) listener(val, prevVal)
callListeners(s, this, snapshot, i, v, prevVal) ==
  IF i > Len(snapshot) \/ s.thrown THEN s
  ELSE callListeners(callListener(s, this, snapshot[i], v, prevVal),
                     this, snapshot, i + 1, v, prevVal)

(***************************************************************************)
(* Observable.batch: the flush loop, then batch entry and exit             *)
(***************************************************************************)
\* the record of the call observable.refresh() the flush loop makes
refreshing(s, cell) ==
  [s EXCEPT !.steps = Append(@, [op |-> "refresh", cell |-> cell])]

\* for (let i = observables.length - 1; i >= 0; i--), from index i down
flush(s, observables, i) ==
  IF i < 1 \/ s.thrown THEN s
  ELSE flushOne(observables, i, s.val[observables[i]],
                refresh(refreshing(s, observables[i]), observables[i]))

\* the body of the loop after hasChanged = observable.refresh(), which r holds
flushOne(observables, i, prevVal, r) ==
  flush(IF r.st.thrown THEN r.st
        ELSE IF r.ret
        THEN callListeners([r.st EXCEPT !.dirty[observables[i]] = FALSE],
                           observables[i], r.st.listeners[observables[i]], 1,
                           r.st.val[observables[i]], prevVal)
        ELSE [r.st EXCEPT !.dirty[observables[i]] = FALSE],
        observables, i - 1)

batchEnter(s) == [s EXCEPT !.batchDepth = @ + 1]

\* the exit of a batch flushing whatever the depth it returns to
batchExitFlushing(s) ==
  LET s1 == [s EXCEPT !.batchDepth = @ - 1]
  IN  flush([s1 EXCEPT !.dirtyObservables = <<>>],
            s1.dirtyObservables, Len(s1.dirtyObservables))

batchExit(s) ==
  LET s1 == [s EXCEPT !.batchDepth = @ - 1]
  IN  IF s1.batchDepth = 0
      THEN flush([s1 EXCEPT !.dirtyObservables = <<>>,
                            !.touched = touch(s1, "dirtyObservables")],
                 s1.dirtyObservables, Len(s1.dirtyObservables))
      ELSE s1

\* the finally clause of batch() run by an exception that leaves block(): the
\* exit of the batch, after which the exception goes on to the caller
finallyExit(s) == [batchExit([s EXCEPT !.thrown = FALSE]) EXCEPT !.thrown = TRUE]

(***************************************************************************)
(* Observable.markAsDirty, WritableObservable.set / update                 *)
(***************************************************************************)
markAsDirty(s, this) ==
  LET s1 == [s EXCEPT !.globalRevision = @ + 1,
                      !.touched = touch(s, "globalRevision")]
  IN  batchExit(addToBatch(batchEnter(s1), this))

set(s, this, v) == markAsDirty([s EXCEPT !.next[this] = v], this)

\* reset() { this.set(this._defaultVal); }
reset(s, this) == set(s, this, graph[this].defaultVal)

\* the updater used by the model: (it) => (it + 1) % (MaxVal + 1)
updater(v) == (v + 1) % (MaxVal + 1)

\* this.set(updater(g)), g being what this.get() returned
updated(this, g) == IF g.st.thrown THEN g.st ELSE set(g.st, this, updater(g.ret))

update(s, this) == updated(this, get(s, this))

(***************************************************************************)
(* The value a cell ought to have: what the latest writes determine.       *)
(***************************************************************************)
\* the compute function of cell c applied to the values env gives the cells
applied(c, env) ==
  LET d == graph[c]
  IN  IF d.fn = "ite"
      THEN result(d, <<env[d.args[1]], IF env[d.args[1]] # 0 THEN env[d.args[2]] ELSE env[d.args[3]]>>)
      ELSE result(d, [i \in 1..Len(d.args) |-> env[d.args[i]]])

RECURSIVE Ideal(_, _)
Ideal(s, c) ==
  IF IsWritable(c)
  THEN IF s.next[c] # UNSET THEN s.next[c]
       ELSE IF s.val[c] # UNSET THEN s.val[c]
       ELSE graph[c].defaultVal
  ELSE applied(c, [x \in Cells |-> IF x \in {graph[c].args[i] : i \in 1..Len(graph[c].args)}
                                    THEN Ideal(s, x) ELSE UNSET])

IdealAll(s) == [c \in Cells |-> Ideal(s, c)]

(***************************************************************************)
(* The listener functions the application may subscribe.                   *)
(***************************************************************************)
log == [kind |-> "log", cell |-> "-"]

reader(c) == [kind |-> "get", cell |-> c]

\* a listener that calls reset() on the writable cell w
resetter(w) == [kind |-> "reset", cell |-> w]

\* a listener that throws
thrower == [kind |-> "throw", cell |-> "-"]

\* a listener calling the unsubscribe function of the k-th subscription made
canceller(k) == [kind |-> "unsubscribe", cell |-> k]

\* app.listenerFns: the listener functions the application passes to subscribe()
\* app.subscribable: the cells it subscribes to
\* app.readable: the cells it calls get() on
Application(fns, subs, reads) == [listenerFns |-> fns, subscribable |-> subs, readable |-> reads]

(***************************************************************************)
(* Actions: one per call the application makes.                            *)
(***************************************************************************)
\* pre is taken when the outermost batch begins and dropped when it has ended
NoPre == [val |-> [c \in Cells |-> UNSET], stable |-> TRUE, revision |-> 0]

Get(c) ==
  /\ Install(get(State, c).st)
  /\ UNCHANGED pre

Set(w, v) ==
  /\ IsWritable(w)
  /\ globalRevision < MaxRevision
  /\ Install(set(State, w, v))
  /\ UNCHANGED pre

Update(w) ==
  /\ IsWritable(w)
  /\ globalRevision < MaxRevision
  /\ Install(update(State, w))
  /\ UNCHANGED pre

Subscribe(c, l) ==
  /\ Len(unsubscribers) < MaxSubscriptions
  /\ Install(subscribe(State, c, l))
  /\ pre' = [pre EXCEPT !.stable = (batchDepth = 0)]

\* the closures the application holds are those subscribe() returned to it:
\* the one toPromise() keeps is called by its listener only, the one
\* persistSingle() gets is dropped
Unsubscribe(u) ==
  /\ \A p \in 1..Len(promises) : promises[p].unsubscribe # u
  /\ \A l \in 1..Len(tasks.loads) : tasks.loads[l].unsubscribe # u
  /\ Install(unsubscribe(State, u))
  /\ pre' = [pre EXCEPT !.stable = (batchDepth = 0)]

\* batch(block): entry (lines 462-465) and exit (lines 466-488) of the block
BatchBegin ==
  /\ batchDepth < MaxBatchDepth
  /\ Install(batchEnter(State))
  /\ pre' = IF batchDepth = 0 THEN [val |-> IdealAll(State), stable |-> TRUE, revision |-> globalRevision] ELSE pre

BatchEnd ==
  /\ batchDepth > 0
  /\ Install(batchExit(State))
  /\ pre' = IF batchDepth = 1 THEN NoPre ELSE pre

Next ==
  \/ \E c \in app.readable : Get(c)
  \/ \E w \in Cells, v \in Values : Set(w, v)
  \/ \E w \in Cells : Update(w)
  \/ \E c \in app.subscribable, l \in app.listenerFns : Subscribe(c, l)
  \/ \E u \in 1..Len(unsubscribers) : Unsubscribe(u)
  \/ BatchBegin
  \/ BatchEnd

(***************************************************************************)
(* toPromise(observable): a new promise whose executor subscribes the      *)
(* resolving listener; an exception of subscribe() rejects the promise.    *)
(***************************************************************************)
resolver(p) ==
  [kind |-> "resolve", cell |-> IF p = 1 THEN "1" ELSE IF p = 2 THEN "2" ELSE "3"]

\* the promise returned, s being what observable.subscribe() left
promised(this, s) ==
  [s EXCEPT !.promises[Len(s.promises)].state = IF s.thrown THEN "rejected" ELSE "pending",
            !.promises[Len(s.promises)].unsubscribe =
               IF s.thrown THEN 0 ELSE Len(s.unsubscribers),
            !.thrown = FALSE]

toPromise(s, this) ==
  promised(this,
           subscribe([s EXCEPT !.promises =
                        Append(@, [cell |-> this, state |-> "pending", val |-> UNSET,
                                   unsubscribe |-> 0])],
                     this, resolver(Len(s.promises) + 1)))

ToPromise(c) ==
  /\ Len(unsubscribers) < MaxSubscriptions
  /\ Install(toPromise(State, c))
  /\ pre' = [pre EXCEPT !.stable = (batchDepth = 0)]

NextPromise ==
  \/ Next
  \/ \E c \in app.subscribable : ToPromise(c)

(***************************************************************************)
(* The persistor of createPersist(options), with the storage of its test   *)
(* (MemoryStorage: getItem reads and setItem assigns at the call, the      *)
(* promise they return settles later).  An async function runs from one    *)
(* await to the next in one step; the steps of the pending functions       *)
(* interleave in any order.                                                *)
(*                                                                         *)
(* The migrations have the shape of the test's: the first one is           *)
(*   async ({ set }) => { await set("book", 0); }                          *)
(* and every other one is                                                  *)
(*   async ({ get, set }) => { await set("book", f(await get("book", 0))) }*)
(* with f the updater of the model.                                        *)
(***************************************************************************)
NoPersistor ==
  [created |-> FALSE, readOnly |-> FALSE, migrations |-> 0, migratePromise |-> FALSE,
   loadPromises |-> <<>>, savePromises |-> <<>>, saves |-> 0]

NoTasks ==
  [migrate |-> [pc |-> "done", i |-> 0, got |-> ""], loads |-> <<>>,
   flush |-> [pc |-> "idle", pending |-> {}, revision |-> 0],
   ready |-> [pc |-> "idle", migrate |-> FALSE, pending |-> {}]]

NoJournal ==
  [version |-> 0, migrated |-> <<>>, completed |-> <<>>, hydrated |-> <<>>,
   saved |-> 0, error |-> FALSE, items |-> <<>>, migratedItems |-> <<>>]

saver(key) == [kind |-> "save", cell |-> key]

\* the position of migrate() after createPersist() has called it: it awaits
\* get(VERSION_KEY), whose getItem() has read the storage
createPersist(storage, readOnly, migrations) ==
  [persistor |-> [created |-> TRUE, readOnly |-> readOnly, migrations |-> migrations,
                  migratePromise |-> TRUE, loadPromises |-> <<>>,
                  savePromises |-> <<>>, saves |-> 0],
   tasks |-> [NoTasks EXCEPT !.migrate = [pc |-> "version", i |-> 0,
                                          got |-> storage[VERSION_KEY]]],
   journal |-> [NoJournal EXCEPT !.version = persistGet(storage[VERSION_KEY], 0),
                                 !.items = storage]]

\* migrate() returns: migratePromise settles and its finally() callback
\* assigns undefined to it
migrateReturn(s, error) ==
  [s EXCEPT !.tasks.migrate.pc = "done",
            !.persistor.migratePromise = FALSE,
            !.journal.error = error,
            !.journal.migratedItems = s.items]

\* for (let i = ...; i < migrations.length; i++): the loop of migrate() from
\* index i on, up to the first await of migrations[i]
migrateLoop(s, i) ==
  IF i >= s.persistor.migrations THEN migrateReturn(s, FALSE)
  ELSE IF i = 0
  THEN [persistSet(s, "book", 0) EXCEPT
          !.tasks.migrate = [pc |-> "set", i |-> i, got |-> ""],
          !.journal.migrated = Append(@, i)]
  ELSE [s EXCEPT !.tasks.migrate = [pc |-> "get", i |-> i, got |-> s.items["book"]],
                 !.journal.migrated = Append(@, i)]

\* the loop of migrate() starting at index 0 whatever the stored version
migrateFromVersionZero(s) ==
  IF s.persistor.migrations < persistGet(s.tasks.migrate.got, 0)
  THEN migrateReturn(s, TRUE)
  ELSE migrateLoop(s, 0)

\* const version = (await get(VERSION_KEY)) ?? 0 and what follows it
migrateFromVersion(s) ==
  IF s.persistor.migrations < persistGet(s.tasks.migrate.got, 0)
  THEN migrateReturn(s, TRUE)
  ELSE migrateLoop(s, persistGet(s.tasks.migrate.got, 0))

\* migrate() resumed after the await it is suspended at
migrateResume(s) ==
  IF s.tasks.migrate.pc = "version" THEN migrateFromVersion(s)
  ELSE IF s.tasks.migrate.pc = "get"
  THEN [persistSet(s, "book", updater(persistGet(s.tasks.migrate.got, 0))) EXCEPT
          !.tasks.migrate.pc = "set"]
  ELSE IF s.tasks.migrate.pc = "set"
  THEN [persistSet(s, VERSION_KEY, s.tasks.migrate.i + 1) EXCEPT
          !.tasks.migrate.pc = "setVersion",
          !.journal.completed = Append(@, s.tasks.migrate.i)]
  ELSE migrateLoop(s, s.tasks.migrate.i + 1)

\* block() of persistSingle() up to its await: get(key, UNSET) has called
\* storage.getItem(key), and runLoadAsync() has pushed the promise
loadBlock(s, l) ==
  [s EXCEPT !.tasks.loads[l].pc = "get",
            !.tasks.loads[l].got = s.items[s.tasks.loads[l].key],
            !.persistor.loadPromises = Append(@, l)]

\* runLoadAsync() calling block() without awaiting migratePromise
runLoadAsyncAtOnce(s, l) == loadBlock(s, l)

\* runLoadAsync(): if (migratePromise) await migratePromise
runLoadAsync(s, l) == IF s.persistor.migratePromise THEN s ELSE loadBlock(s, l)

persistSingle(s, cell, key) ==
  runLoadAsync([s EXCEPT !.tasks.loads =
                  Append(@, [cell |-> cell, key |-> key, pc |-> "migrate",
                             got |-> "", unsubscribe |-> 0,
                             waited |-> s.persistor.migratePromise,
                             revision |-> s.globalRevision, early |-> FALSE,
                             val |-> UNSET])],
               Len(s.tasks.loads) + 1)

\* the end of block(), s being what observable.subscribe() left: the promise
\* settles and leaves loadPromises
loadSettled(l, s) ==
  [s EXCEPT !.tasks.loads[l].pc = "done",
            !.tasks.loads[l].unsubscribe = IF s.thrown THEN 0 ELSE Len(s.unsubscribers),
            !.tasks.loads[l].val = Ideal(s, s.tasks.loads[l].cell),
            !.persistor.loadPromises = spliceIndexOf(@, l)]

\* observable.subscribe(...) of block(), s being what observable.set() left
loadHydrated(l, s) ==
  IF s.thrown THEN loadSettled(l, s)
  ELSE loadSettled(l, subscribe(s, s.tasks.loads[l].cell, saver(s.tasks.loads[l].key)))

\* if (value !== UNSET) observable.set(value), value being what get() returned
loadGot(s, l, value) ==
  loadHydrated(l,
    IF value # UNSET
    THEN set([s EXCEPT !.journal.hydrated =
                Append(@, [cell |-> s.tasks.loads[l].cell, val |-> value,
                           migrating |-> s.tasks.migrate.pc # "done",
                           completed |-> Len(s.journal.completed)]),
                       !.tasks.loads[l].early =
                         s.globalRevision # s.tasks.loads[l].revision],
             s.tasks.loads[l].cell, value)
    ELSE [s EXCEPT !.tasks.loads[l].early =
            s.globalRevision # s.tasks.loads[l].revision])

\* persistSingle() resumed after the await it is suspended at
loadResume(s, l) ==
  IF s.tasks.loads[l].pc = "migrate" THEN loadBlock(s, l)
  ELSE loadGot(s, l, persistGet(s.tasks.loads[l].got, UNSET))

\* promise.finally(() => savePromises.splice(savePromises.indexOf(promise), 1))
saveSettled(s, id) == [s EXCEPT !.persistor.savePromises = spliceIndexOf(@, id)]

\* flush(): await Promise.all(savePromises), which holds the promises that
\* are pending at the call
flushCalled(s) ==
  [s EXCEPT !.tasks.flush = [pc |-> "await", pending |-> Elems(s.persistor.savePromises),
                             revision |-> s.globalRevision]]

\* waitForReady(): await Promise.all(migratePromise ? [migratePromise,
\* ...loadPromises] : loadPromises)
waitForReady(s) ==
  [s EXCEPT !.tasks.ready = [pc |-> "await", migrate |-> s.persistor.migratePromise,
                             pending |-> Elems(s.persistor.loadPromises)]]

\* the persistor's steps: the application's calls and the resumptions of its
\* async functions, which never run inside a batch() block
MigrateResume ==
  /\ batchDepth = 0
  /\ tasks.migrate.pc # "done"
  /\ Install(migrateResume(State))
  /\ UNCHANGED pre

PersistSingle(c) ==
  /\ persistor.created
  /\ IsWritable(c)
  /\ \A l \in 1..Len(tasks.loads) : tasks.loads[l].cell # c
  /\ Install(persistSingle(State, c, c))
  /\ UNCHANGED pre

LoadResume(l) ==
  /\ batchDepth = 0
  /\ \/ tasks.loads[l].pc = "migrate" /\ ~persistor.migratePromise
     \/ tasks.loads[l].pc = "get"
  /\ Install(loadResume(State, l))
  /\ UNCHANGED pre

SaveSettle(id) ==
  /\ batchDepth = 0
  /\ Install(saveSettled(State, id))
  /\ UNCHANGED pre

FlushCall ==
  /\ persistor.created
  /\ batchDepth = 0
  /\ tasks.flush.pc # "await"
  /\ Install(flushCalled(State))
  /\ UNCHANGED pre

FlushResolve ==
  /\ batchDepth = 0
  /\ tasks.flush.pc = "await"
  /\ tasks.flush.pending \cap Elems(persistor.savePromises) = {}
  /\ Install([State EXCEPT !.tasks.flush.pc = "resolved"])
  /\ UNCHANGED pre

WaitForReady ==
  /\ persistor.created
  /\ batchDepth = 0
  /\ tasks.ready.pc # "await"
  /\ Install(waitForReady(State))
  /\ UNCHANGED pre

ReadyResolve ==
  /\ batchDepth = 0
  /\ tasks.ready.pc = "await"
  /\ tasks.ready.migrate => tasks.migrate.pc = "done"
  /\ tasks.ready.pending \cap Elems(persistor.loadPromises) = {}
  /\ Install([State EXCEPT !.tasks.ready.pc = "resolved"])
  /\ UNCHANGED pre

\* the application of the persistor's test: it reads and writes the persisted
\* cell, inside batch() blocks or not, and calls the persistor
NextPersist ==
  \/ \E c \in app.readable : Get(c)
  \/ \E w \in Cells, v \in Values : Set(w, v)
  \/ BatchBegin
  \/ BatchEnd
  \/ MigrateResume
  \/ \E c \in Cells : PersistSingle(c)
  \/ \E l \in 1..Len(tasks.loads) : LoadResume(l)
  \/ \E id \in Elems(persistor.savePromises) : SaveSettle(id)
  \/ FlushCall
  \/ FlushResolve
  \/ WaitForReady
  \/ ReadyResolve

(***************************************************************************)
(* The Redux store: dispatch() assigns the new state and calls the         *)
(* listeners, each of which is the callback of a ReduxObservable:          *)
(* () => Observable.batch(() => this.addToBatch()).                        *)
(***************************************************************************)
RECURSIVE notify(_, _, _)

\* the store calling its listeners, from the i-th of the array ls on
notify(s, ls, i) ==
  IF i > Len(ls) \/ s.thrown THEN s
  ELSE notify(batchExit(addToBatch(batchEnter(s), ls[i])), ls, i + 1)

dispatch(s, v) == notify([s EXCEPT !.store = v], s.storeListeners, 1)

Dispatch(v) ==
  /\ Install(dispatch(State, v))
  /\ UNCHANGED pre

NextStore ==
  \/ Next
  \/ \E v \in Values : Dispatch(v)

(***************************************************************************)
(* The state after construction of the cells of a graph g.                 *)
(***************************************************************************)
InitCells(g, a) ==
  /\ graph = g
  /\ app = a
  /\ val = [c \in DOMAIN g |-> UNSET]
  /\ listeners = [c \in DOMAIN g |-> <<>>]
  /\ inputs = [c \in DOMAIN g |-> <<>>]
  /\ outputs = [c \in DOMAIN g |-> <<>>]
  /\ revision = [c \in DOMAIN g |-> -1]
  /\ refreshRevision = [c \in DOMAIN g |-> -1]
  /\ attached = [c \in DOMAIN g |-> FALSE]
  /\ dirty = [c \in DOMAIN g |-> FALSE]
  /\ next = [c \in DOMAIN g |-> UNSET]
  /\ memoized = [c \in DOMAIN g |-> UNSET]
  /\ prevInputs = [c \in DOMAIN g |-> <<>>]
  /\ dirtyObservables = <<>>
  /\ batchDepth = 0
  /\ globalRevision = 0
  /\ unsubscribers = <<>>
  /\ store = 0
  /\ storeListeners = <<>>
  /\ storeUnsubscribe = [c \in DOMAIN g |-> FALSE]
  /\ promises = <<>>
  /\ hooks = [c \in DOMAIN g |-> <<>>]
  /\ fired = <<>>
  /\ ran = <<>>
  /\ pre = [val |-> [c \in DOMAIN g |-> UNSET], stable |-> TRUE, revision |-> 0]

\* the application has not called createPersist()
InitGraph(g, a) ==
  /\ InitCells(g, a)
  /\ items = <<>>
  /\ persistor = NoPersistor
  /\ tasks = NoTasks
  /\ journal = NoJournal

\* w -> d1 -> d2: a chain of derived cells
ChainGraph ==
  [w |-> observable(0), d1 |-> derived("sum", <<"w">>), d2 |-> derived("sum", <<"d1">>)]

\* total = w1 + w2: independent writable cells feeding one derived cell
SumGraph ==
  [w1 |-> observable(0), w2 |-> observable(0), total |-> derived("sum", <<"w1", "w2">>)]

\* b and c derived from a, d derived from b and c
DiamondGraph ==
  [a |-> observable(0), b |-> derived("sum", <<"a">>), c |-> derived("sum", <<"a">>),
   d |-> derived("sum", <<"b", "c">>)]

\* d = flag.get() ? a.get() : b.get(), with a writable and b derived
DynGraph ==
  [flag |-> observable(1), a |-> observable(0), wb |-> observable(0),
   b |-> derived("sum", <<"wb">>), d |-> derived("ite", <<"flag", "a", "b">>)]

Init == InitGraph(ChainGraph, Application({log}, DOMAIN ChainGraph, DOMAIN ChainGraph))

Spec == Init /\ [][Next]_vars

\* the chain again, with listeners that call get() while the flush is running
InitReaders == InitGraph(ChainGraph, Application({reader("d2"), reader("d1")}, {"w", "d1"}, DOMAIN ChainGraph))

SpecReaders == InitReaders /\ [][Next]_vars

InitSum == InitGraph(SumGraph, Application({log}, {"total"}, DOMAIN SumGraph))

SpecSum == InitSum /\ [][Next]_vars

InitDiamond == InitGraph(DiamondGraph, Application({log}, {"d"}, DOMAIN DiamondGraph))

SpecDiamond == InitDiamond /\ [][Next]_vars

\* total = w1 + w2, constructed with the equalityFn "sign"
EqualityGraph ==
  [w1 |-> observable(0), w2 |-> observable(0),
   total |-> withEqualityFn(derived("sum", <<"w1", "w2">>), "sign")]

InitEquality ==
  InitGraph(EqualityGraph, Application({log}, {"total", "w1"}, DOMAIN EqualityGraph))

SpecEquality == InitEquality /\ [][Next]_vars

InitCancel ==
  InitGraph(ChainGraph, Application({log, canceller("1"), canceller("2")}, {"d1"}, DOMAIN ChainGraph))

SpecCancel == InitCancel /\ [][Next]_vars

InitThrow ==
  InitGraph(ChainGraph, Application({log, thrower}, {"w", "d1"}, DOMAIN ChainGraph))

SpecThrow == InitThrow /\ [][Next]_vars

\* d = derived(() => { if (g.get()) throw new Error(); return x.get(); })
GuardedGraph ==
  [g |-> observable(0), x |-> observable(0), d |-> derived("guarded", <<"g", "x">>)]

InitGuarded ==
  InitGraph(GuardedGraph, Application({log}, {"d"}, DOMAIN GuardedGraph))

SpecGuarded == InitGuarded /\ [][Next]_vars

\* e = d.get() + y.get(), with d the throwing cell of GuardedGraph
GuardedSumGraph ==
  [g |-> observable(0), x |-> observable(0), y |-> observable(0),
   d |-> derived("guarded", <<"g", "x">>), e |-> derived("sum", <<"d", "y">>)]

InitGuardedSum ==
  InitGraph(GuardedSumGraph, Application({log}, {"e"}, {"e"}))

SpecGuardedSum == InitGuardedSum /\ [][Next]_vars

\* d = flag.get() ? r.get() : flag.get(), r being backed by the Redux store
StoreGraph ==
  [flag |-> observable(1), r |-> reduxObservable,
   d |-> derived("ite", <<"flag", "r", "flag">>)]

InitStore == InitGraph(StoreGraph, Application({log}, {"d"}, {"d"}))

SpecStore == InitStore /\ [][NextStore]_vars

InitPromise == InitGraph(ChainGraph, Application({log}, {"w", "d2"}, {"w", "d2"}))

SpecPromise == InitPromise /\ [][NextPromise]_vars

\* book = observable(0), persisted under the key "book"
BookGraph == [book |-> observable(0)]

\* the storages the persistor may be created on: any stored version up to
\* one more than the number of migrations, any stored value or none
Storages ==
  [{"book"} -> {Missing} \cup {stringify(v) : v \in Values}] \X
  ({Missing} \cup {stringify(v) : v \in 0..(MaxMigrations + 1)})

InitPersist ==
  /\ InitCells(BookGraph, Application({}, {}, {"book"}))
  /\ \E st \in Storages, readOnly \in BOOLEAN :
       LET storage == [k \in {"book", VERSION_KEY} |->
                         IF k = "book" THEN st[1]["book"] ELSE st[2]]
           p == createPersist(storage, readOnly, MaxMigrations)
       IN  /\ items = storage
           /\ persistor = p.persistor
           /\ tasks = p.tasks
           /\ journal = p.journal

SpecPersist == InitPersist /\ [][NextPersist]_vars

\* total = w1 + w2 again, with listeners that write while the flush is running
InitReset ==
  InitGraph(SumGraph, Application({resetter("w1")}, {"w2", "total"}, {"total"}))

SpecReset == InitReset /\ [][Next]_vars

InitDyn == InitGraph(DynGraph, Application({log}, {"d"}, {"d"}))

SpecDyn == InitDyn /\ [][Next]_vars

(***************************************************************************)
(* Claims                                                                  *)
(***************************************************************************)
\* the values get() returns for every cell in state s
Gets(s) == [c \in Cells |-> get(s, c).ret]

\* C1: in every state between two calls, d.get() on any derived cell d returns
\* d's compute function applied to the values get() then returns for the cells
\* it reads: never a value computed from an older value of an input.
C1_GetIsCurrent ==
  \A d \in Deriveds :
    LET g == get(State, d)
    IN  g.ret = applied(d, Gets(g.st))

\* the model writes while globalRevision < MaxRevision
CanWrite == globalRevision < MaxRevision

\* state s with v written to w and not yet flushed
Written(s, w, v) == [s EXCEPT !.next[w] = v]

Occurrences(seq, x) == Cardinality({i \in 1..Len(seq) : seq[i] = x})

\* the invocations in f of listener l of cell c
Calls(f, c, l) == {i \in 1..Len(f) : f[i].cell = c /\ f[i].listener = l}

\* in f, every listener of ls was invoked for cell c with (v, p), once per
\* subscription
InvokedOnce(f, c, ls, v, p) ==
  \A k \in 1..Len(ls) :
    /\ Cardinality(Calls(f, c, ls[k])) = Occurrences(ls, ls[k])
    /\ \A i \in Calls(f, c, ls[k]) : f[i].val = v /\ f[i].prevVal = p

\* in f, every listener of ls was invoked for cell c with the new value v
InvokedWith(f, c, ls, v) ==
  \A k \in 1..Len(ls) : \E i \in Calls(f, c, ls[k]) : f[i].val = v

\* C2: when a write changes the value the computation of a derived cell d with
\* a listener yields, d's listeners have been invoked with the new value when
\* set() returns, or when the outermost batch returns.
C2_DerivedListenerNotified ==
  /\ (batchDepth = 0 /\ CanWrite) =>
       \A w \in Writables, v \in Values, d \in Deriveds :
         Ideal(Written(State, w, v), d) # Ideal(State, d) =>
           InvokedWith(set(State, w, v).fired, d, listeners[d], Ideal(Written(State, w, v), d))
  /\ (batchDepth = 1 /\ pre.stable) =>
       \A d \in Deriveds :
         Ideal(State, d) # pre.val[d] =>
           InvokedWith(batchExit(State).fired, d, listeners[d], Ideal(State, d))

\* C3: when a writable cell is set to a value not equal to its current value,
\* every listener of the cell is invoked exactly once with (new value, previous
\* value) when set() returns, or when the outermost batch returns.
C3_WritableListenersOnce ==
  /\ (batchDepth = 0 /\ CanWrite) =>
       \A w \in Writables, v \in Values :
         v # Ideal(State, w) =>
           InvokedOnce(set(State, w, v).fired, w, listeners[w], v, Ideal(State, w))
  /\ (batchDepth = 1 /\ pre.stable) =>
       \A w \in Writables :
         Ideal(State, w) # pre.val[w] =>
           InvokedOnce(batchExit(State).fired, w, listeners[w], Ideal(State, w), pre.val[w])

\* A write call: set(arg) or update(updater)
Writes == {[op |-> "set", arg |-> v] : v \in Values} \cup {[op |-> "update", arg |-> 0]}

write(s, w, x) == IF x.op = "update" THEN update(s, w) ELSE set(s, w, x.arg)

\* the value the write call x gives cell w in state s
WrittenVal(s, w, x) == IF x.op = "update" THEN updater(Ideal(s, w)) ELSE x.arg

\* the vals passed, in order, to listener l of cell c in f
ValsPassed(f, c, l) ==
  LET calls == SelectSeq(f, LAMBDA e : e.cell = c /\ e.listener = l)
  IN  [i \in 1..Len(calls) |-> calls[i].val]

\* derived cells computed from two distinct writable cells
FedByTwo == {d \in Deriveds : /\ graph[d].fn = "sum" /\ Len(graph[d].args) = 2
                               /\ graph[d].args[1] # graph[d].args[2]
                               /\ \A i \in 1..2 : IsWritable(graph[d].args[i])}

\* C4: two writes to the two writable cells feeding a derived cell d, each
\* changing d's value: made in one batch, they invoke every listener of d
\* exactly once, with the final value; made outside a batch, twice, with the
\* intermediate and then the final value.
C4_BatchCoalescing ==
  batchDepth = 0 =>
    \A d \in FedByTwo : \A x1, x2 \in Writes :
      LET w1 == graph[d].args[1]
          w2 == graph[d].args[2]
          i1 == Written(State, w1, WrittenVal(State, w1, x1))
          i2 == Written(i1, w2, WrittenVal(i1, w2, x2))
          t0 == Ideal(State, d)
          t1 == Ideal(i1, d)
          t2 == Ideal(i2, d)
          inBatch == batchExit(write(write(batchEnter(State), w1, x1), w2, x2))
          apart == write(write(State, w1, x1), w2, x2)
      IN  (t1 # t0 /\ t2 # t1 /\ t2 # t0) =>
            \A k \in 1..Len(listeners[d]) :
              /\ listeners[d][k].kind = "log" /\ Occurrences(listeners[d], listeners[d][k]) = 1
                   => /\ ValsPassed(inBatch.fired, d, listeners[d][k]) = <<t2>>
                      /\ ValsPassed(apart.fired, d, listeners[d][k]) = <<t1, t2>>

\* the diamonds of the graph: d computed from b and c, both computed from a
Diamonds ==
  {q \in [a : Writables, b : Deriveds, c : Deriveds, d : Deriveds] :
     /\ q.b # q.c
     /\ graph[q.d].fn = "sum" /\ graph[q.d].args = <<q.b, q.c>>
     /\ graph[q.b].args = <<q.a>>
     /\ graph[q.c].args = <<q.a>>}

\* C5: in a diamond, a single a.set(x) that changes d's value invokes every
\* listener of d exactly once, and every run of d's computation reads the new
\* values of both b and c.
C5_Diamond ==
  batchDepth = 0 =>
    \A q \in Diamonds : \A x \in Values :
      LET new == Written(State, q.a, x)
          r == set(State, q.a, x)
      IN  /\ Ideal(new, q.d) # Ideal(State, q.d) =>
               \A k \in 1..Len(listeners[q.d]) :
                 Cardinality(Calls(r.fired, q.d, listeners[q.d][k]))
                   = Occurrences(listeners[q.d], listeners[q.d][k])
          /\ \A i \in 1..Len(r.ran) :
               r.ran[i].cell = q.d => r.ran[i].vals = <<Ideal(new, q.b), Ideal(new, q.c)>>

\* C5, its second half alone: no run of d's computation mixes old and new
C5_NoGlitch ==
  batchDepth = 0 =>
    \A q \in Diamonds : \A x \in Values :
      LET new == Written(State, q.a, x)
          r == set(State, q.a, x)
      IN  \A i \in 1..Len(r.ran) :
            r.ran[i].cell = q.d => r.ran[i].vals = <<Ideal(new, q.b), Ideal(new, q.c)>>

\* C6: every get() a listener performs during a flush returns the value the
\* cell has once the flush has completed (fired holds the invocations of the
\* flush that has just completed).
C6_ListenersSeeFinalState ==
  \A i \in 1..Len(fired) :
    fired[i].listener.kind = "get" =>
      /\ fired[i].saw = val[fired[i].listener.cell]
      /\ fired[i].saw = get(State, fired[i].listener.cell).ret

\* a flush has just completed in which a listener of one cell read another
\* cell, attached and so pending or refreshed in that flush, and saw it changed
C6_Witness ==
  \E i \in 1..Len(fired) :
    /\ fired[i].listener.kind = "get"
    /\ fired[i].listener.cell # fired[i].cell
    /\ attached[fired[i].listener.cell]
    /\ fired[i].val # fired[i].prevVal
    /\ fired[i].saw = fired[i].val

\* x reads y directly or through other cells, by the current inputs
RECURSIVE ReadsTrans(_, _)
ReadsTrans(x, y) ==
  \E k \in 1..Len(inputs[x]) : inputs[x][k] = y \/ ReadsTrans(inputs[x][k], y)

\* C7: the pending list holds every pending cell after all of its pending
\* transitive outputs (so that the flush, which runs from the end of the list,
\* reaches a cell only after the cells it reads).
C7_PendingOrder ==
  \A i, j \in 1..Len(dirtyObservables) :
    i < j => ~ReadsTrans(dirtyObservables[j], dirtyObservables[i])

\* C8: within one outermost batch a cell is pushed onto the pending list at
\* most once, and the flush invokes each listener at most once per
\* subscription.
C8_AtMostOncePerBatch ==
  /\ \A c \in Cells : Occurrences(dirtyObservables, c) <= 1
  /\ \A i \in 1..Len(fired) :
       Cardinality(Calls(fired, fired[i].cell, fired[i].listener))
         <= Occurrences(listeners[fired[i].cell], fired[i].listener)

\* two writes were made in the open batch and a cell with a listener is
\* pending, once
C8_Witness ==
  /\ batchDepth = 1
  /\ globalRevision >= pre.revision + 2
  /\ \E c \in Cells : Len(listeners[c]) > 0 /\ Occurrences(dirtyObservables, c) = 1

\* C9: the flush of a batch passes every listener the aggregate transition:
\* prevVal is the cell's value from before the batch, val its value after all
\* the writes of the batch, and a cell whose value after the batch equals its
\* value before it has no listener invoked.
C9_AggregateTransition ==
  (batchDepth = 1 /\ pre.stable) =>
    LET r == batchExit(State)
    IN  \A i \in 1..Len(r.fired) :
          /\ r.fired[i].prevVal = pre.val[r.fired[i].cell]
          /\ r.fired[i].val = Ideal(State, r.fired[i].cell)
          /\ r.fired[i].val # r.fired[i].prevVal

\* the writable cell a write to x goes to: x itself, or the cell a derived x
\* is computed from
Source(x) == IF IsWritable(x) THEN x ELSE graph[x].args[1]

\* the cells d = derived(() => flag.get() ? a.get() : b.get())
Switches == {d \in Deriveds : graph[d].fn = "ite"}

RanFor(r, d) == \E i \in 1..Len(r.ran) : r.ran[i].cell = d

FiredFor(r, d) == \E i \in 1..Len(r.fired) : r.fired[i].cell = d

\* C10: for d = derived(() => flag.get() ? a.get() : b.get()) with a listener:
\* while flag is true a write to b neither re-runs d's computation nor invokes
\* d's listener; while flag is false a write that changes b re-runs it and
\* invokes the listener with the new value, and a write to a does not re-run it.
C10_DynamicRewiring ==
  (batchDepth = 0 /\ CanWrite) =>
    \A d \in Switches : \A v \in Values :
      LET flag == graph[d].args[1]
          a == graph[d].args[2]
          b == graph[d].args[3]
          toA == set(State, Source(a), v)
          toB == set(State, Source(b), v)
      IN  Len(listeners[d]) > 0 =>
            /\ Ideal(State, flag) # 0 => ~RanFor(toB, d) /\ ~FiredFor(toB, d)
            /\ Ideal(State, flag) = 0 => ~RanFor(toA, d)
            /\ (Ideal(State, flag) = 0 /\ v # Ideal(State, b)) =>
                  /\ RanFor(toB, d)
                  /\ InvokedWith(toB.fired, d, listeners[d], v)

nested(s, w, v) == batchExit(set(batchEnter(s), w, v))

\* no listener was invoked on the way to state r and no cell refreshed
Unflushed(r) ==
  /\ r.fired = <<>>
  /\ r.val = val
  /\ \A i \in 1..Len(dirtyObservables) : r.dirtyObservables[i] = dirtyObservables[i]
  /\ \A c \in Cells : dirty[c] => r.dirty[c]

\* the flush has run, once: nothing is left pending or dirty, and no listener
\* was invoked more often than it is subscribed
FlushedOnce(r) ==
  /\ r.batchDepth = 0
  /\ r.dirtyObservables = <<>>
  /\ \A c \in Cells : ~r.dirty[c]
  /\ \A i \in 1..Len(r.fired) :
        Cardinality(Calls(r.fired, r.fired[i].cell, r.fired[i].listener))
          <= Occurrences(r.listeners[r.fired[i].cell], r.fired[i].listener)

\* C12: while the batch depth is greater than 0 no listener is invoked and no
\* pending cell is refreshed by a write; a nested batch returns without
\* flushing, and the flush runs once, when the outermost batch exits.
C12_BatchesNest ==
  /\ batchDepth > 0 => fired = <<>>
  /\ (batchDepth > 0 /\ CanWrite) =>
        \A w \in Writables : \A v \in Values :
          /\ Unflushed(set(State, w, v))
          /\ Unflushed(nested(State, w, v))
          /\ nested(State, w, v).batchDepth = batchDepth
          /\ nested(State, w, v).dirtyObservables = set(State, w, v).dirtyObservables
          /\ batchDepth = 1 => FlushedOnce(batchExit(nested(State, w, v)))

\* inside a batch a cell with a listener is pending with a new value, a
\* nested batch leaves it pending, and the exit of the outer batch notifies
C12_Witness ==
  /\ batchDepth = 1
  /\ CanWrite
  /\ \E w \in Writables :
        /\ dirty[w] /\ Len(listeners[w]) > 0 /\ next[w] # UNSET /\ next[w] # val[w]
        /\ nested(State, w, next[w]).dirtyObservables = dirtyObservables
        /\ Len(batchExit(nested(State, w, next[w])).fired) > 0

\* the entries of f for cell c
FiredOf(f, c) == {i \in 1..Len(f) : f[i].cell = c}

\* C13: a listener is invoked only when the cell's new value differs from
\* its previous one, by identity and by the cell's equalityFn: the val and
\* prevVal passed are never equal, and a write after which a cell's value
\* equals its value before invokes no listener of that cell.
C13_OnlyOnChange ==
  /\ \A i \in 1..Len(fired) :
        /\ fired[i].val # fired[i].prevVal
        /\ ~equalityFn(fired[i].cell, fired[i].val, fired[i].prevVal)
  /\ (batchDepth = 0 /\ CanWrite) =>
        \A w \in Writables : \A v \in Values :
          LET r == set(State, w, v)
          IN  /\ v = val[w] => FiredOf(r.fired, w) = {}
              /\ \A c \in Cells :
                    (val[c] # UNSET /\ equalityFn(c, r.val[c], val[c]))
                      => FiredOf(r.fired, c) = {}
              /\ \A d \in Deriveds :
                    (/\ val[d] # UNSET
                     /\ \A i \in 1..Len(r.ran) :
                           r.ran[i].cell = d
                             => equalityFn(d, result(graph[d], r.ran[i].vals), val[d]))
                      => FiredOf(r.fired, d) = {}

\* a write has made a cell with a listener and an equalityFn compute a value
\* that is not identical to its previous one but equal to it, and no
\* listener was invoked
C13_Witness ==
  \E d \in Deriveds :
    /\ graph[d].equalityFn = "sign"
    /\ Len(listeners[d]) > 0
    /\ batchDepth = 0
    /\ fired = <<>>
    /\ \E i \in 1..Len(ran) :
          /\ ran[i].cell = d
          /\ result(graph[d], ran[i].vals) # val[d]
          /\ equalityFn(d, result(graph[d], ran[i].vals), val[d])

\* the listener functions an application can pass to subscribe()
ListenerFns == {log} \cup {reader(c) : c \in Cells}

\* C14: subscribe() invokes no listener, and neither does unsubscribing
\* right after it, for writable and derived cells, evaluated before or not.
C14_SubscribeIsSilent ==
  Len(unsubscribers) < MaxSubscriptions =>
    \A c \in Cells : \A l \in ListenerFns :
      LET r == subscribe(State, c, l)
      IN  /\ r.fired = <<>>
          /\ unsubscribe(r, Len(r.unsubscribers)).fired = <<>>
          /\ Len(unsubscribe(r, Len(r.unsubscribers)).listeners[c]) = Len(listeners[c])

\* before any write, subscribe() has evaluated a derived cell for the first
\* time and invoked no listener
C14_Witness ==
  /\ globalRevision = 0
  /\ fired = <<>>
  /\ \E d \in Deriveds : Len(listeners[d]) > 0 /\ RanFor([ran |-> ran], d)

\* the number of subscriptions of listener l to cell c not yet unsubscribed
Active(c, l) ==
  Cardinality({u \in 1..Len(unsubscribers) :
                 /\ unsubscribers[u].cell = c /\ unsubscribers[u].listener = l
                 /\ ~unsubscribers[u].unsubscribed})

\* state s after c.subscribe(l1), c.subscribe(l2) and the call of the
\* unsubscribe function of l1
Unsubscribed(s, c, l1, l2) ==
  unsubscribe(subscribe(subscribe(s, c, l1), c, l2), Len(s.unsubscribers) + 1)

\* C15: once its unsubscribe function has been called a listener is not
\* invoked by later changes of the cell, and the other listeners of the cell
\* are invoked as before.
C15_UnsubscribedIsSilent ==
  /\ \A c \in Cells : \A l \in ListenerFns : Occurrences(listeners[c], l) = Active(c, l)
  /\ \A i \in 1..Len(fired) : Active(fired[i].cell, fired[i].listener) > 0
  /\ (batchDepth = 0 /\ CanWrite) =>
        \A c \in Cells : \A l2 \in {log, reader(c)} : \A w \in Writables : \A v \in Values :
          LET both == set(subscribe(subscribe(State, c, log), c, l2), w, v)
              one == set(Unsubscribed(State, c, log, l2), w, v)
              n == Cardinality(Calls(both.fired, c, log))
          IN  /\ Cardinality(Calls(one.fired, c, log)) = IF n > 0 THEN n - 1 ELSE 0
              /\ Occurrences(listeners[c], log) = 0 /\ l2 # log => Calls(one.fired, c, log) = {}
              /\ l2 # log => ValsPassed(one.fired, c, l2) = ValsPassed(both.fired, c, l2)
              /\ l2 # log /\ n > 0 => Len(ValsPassed(one.fired, c, l2)) > 0

\* one of two subscriptions to a cell has been unsubscribed and a later change
\* of the cell has invoked the other listener
C15_Witness ==
  \E u1, u2 \in 1..Len(unsubscribers) :
    /\ unsubscribers[u1].unsubscribed
    /\ ~unsubscribers[u2].unsubscribed
    /\ unsubscribers[u1].cell = unsubscribers[u2].cell
    /\ FiredOf(fired, unsubscribers[u2].cell) # {}

\* C16: calling an unsubscribe function a second time changes nothing: no
\* listener is removed, not even another subscription of the same function,
\* and no cell is attached or detached.
C16_UnsubscribeIdempotent ==
  \A u \in 1..Len(unsubscribers) :
    /\ unsubscribers[u].unsubscribed => unsubscribe(State, u) = State
    /\ unsubscribe(unsubscribe(State, u), u) = unsubscribe(State, u)

\* an unsubscribe function has been called while the same function is still
\* subscribed to the same cell a second time, and calling it again changes
\* nothing
C16_Witness ==
  \E u1, u2 \in 1..Len(unsubscribers) :
    /\ unsubscribers[u1].unsubscribed
    /\ ~unsubscribers[u2].unsubscribed
    /\ unsubscribers[u1].cell = unsubscribers[u2].cell
    /\ unsubscribers[u1].listener = unsubscribers[u2].listener
    /\ attached[unsubscribers[u2].cell]
    /\ unsubscribe(State, u1).listeners = listeners

\* in r, whenever a cell's listeners were notified, every listener that was
\* subscribed to it in state s was invoked once per subscription
AllNotified(s, r) ==
  \A c \in Cells :
    FiredOf(r.fired, c) # {} =>
      \A k \in 1..Len(s.listeners[c]) :
        Cardinality(Calls(r.fired, c, s.listeners[c][k]))
          = Occurrences(s.listeners[c], s.listeners[c][k])

\* C17: a listener that calls its own or another listener's unsubscribe
\* function while it is invoked does not keep the other listeners that were
\* subscribed at the start of the notification from being invoked in it.
C17_UnsubscribeDuringNotify ==
  /\ (batchDepth = 0 /\ CanWrite) =>
        \A w \in Writables : \A v \in Values : AllNotified(State, set(State, w, v))
  /\ batchDepth = 1 => AllNotified(State, batchExit(State))

\* a listener has unsubscribed a listener of the cell during a notification
\* and a listener after it in the list has been invoked all the same
C17_Witness ==
  \E i, j \in 1..Len(fired) :
    /\ i < j
    /\ fired[i].listener.kind = "unsubscribe"
    /\ subscriptionOf(fired[i].listener) <= Len(unsubscribers)
    /\ unsubscribers[subscriptionOf(fired[i].listener)].unsubscribed
    /\ fired[j].cell = fired[i].cell
    /\ Len(listeners[fired[i].cell]) < 2

\* x is named in the compute function of y, directly or through other cells
RECURSIVE Names(_, _)
Names(y, x) ==
  \E i \in 1..Len(graph[y].args) :
    graph[y].args[i] = x \/ Names(graph[y].args[i], x)

\* C18: while a derived cell has no listener and no attached output, a write
\* to a writable cell it reads does not run its compute function and marks
\* it neither dirty nor pending.
C18_UnobservedIsLazy ==
  CanWrite =>
    \A d \in Deriveds :
      (~isObserved(State, d) /\ ~dirty[d]) =>
        \A w \in {x \in Writables : Names(d, x)} : \A v \in Values :
          LET r == set(State, w, v)
          IN  /\ ~RanFor(r, d)
              /\ ~r.dirty[d]
              /\ Occurrences(r.dirtyObservables, d) = 0

\* state s with every throwing listener replaced by one that returns
Muted(s) ==
  [s EXCEPT !.listeners =
     [c \in Cells |->
        [k \in 1..Len(s.listeners[c]) |->
           IF s.listeners[c][k].kind = "throw" THEN log ELSE s.listeners[c][k]]]]

\* every cell has as many listener invocations in r as in q
SameInvocations(r, q) ==
  \A c \in Cells : Cardinality(FiredOf(r.fired, c)) = Cardinality(FiredOf(q.fired, c))

\* C19: a listener that throws during a flush keeps no other listener, of the
\* same cell or of another pending cell, from being invoked in that flush:
\* the flush makes the invocations it makes when the listener returns.
C19_ThrowingListener ==
  /\ (batchDepth = 0 /\ CanWrite) =>
        \A w \in Writables : \A v \in Values :
          SameInvocations(set(State, w, v), set(Muted(State), w, v))
  /\ batchDepth = 1 => SameInvocations(batchExit(State), batchExit(Muted(State)))

\* the runs of d's compute function in r that threw
ThrownRuns(r, d) ==
  {i \in 1..Len(r.ran) : r.ran[i].cell = d /\ throws(graph[d], r.ran[i].vals)}

\* in r the cached value, the memoized value and the inputs of d, and the
\* outputs of the cells d names, are what they are in the current state
Intact(r, d) ==
  /\ r.val[d] = val[d]
  /\ r.memoized[d] = memoized[d]
  /\ r.inputs[d] = inputs[d]
  /\ r.prevInputs[d] = prevInputs[d]
  /\ \A i \in Cells : Names(d, i) => r.outputs[i] = outputs[i]

\* the call that left r ran d's compute function, which threw: the call has
\* thrown and has left d as it was
Propagated(r, d) == ThrownRuns(r, d) # {} => r.thrown /\ Intact(r, d)

\* C20: when the compute function of a derived cell throws, the exception
\* propagates out of the get(), set() or batch() that evaluated the cell,
\* and the cell's cached value, memoized value and inputs, and the outputs
\* of its inputs, are what they were before.
C20_ThrowingCompute ==
  \A d \in {c \in Deriveds : graph[c].fn = "guarded"} :
    /\ Propagated(get(State, d).st, d)
    /\ (batchDepth = 0 /\ CanWrite) =>
          \A w \in Writables : \A v \in Values : Propagated(set(State, w, v), d)
    /\ batchDepth = 1 => Propagated(batchExit(State), d)

\* the compute function of a cell that has a cached value and two inputs
\* has thrown in the last call, and the cell has kept them
C20_Witness ==
  \E d \in Deriveds :
    /\ ThrownRuns([ran |-> ran], d) # {}
    /\ val[d] # UNSET
    /\ memoized[d] # UNSET
    /\ Len(inputs[d]) = 2
    /\ Len(prevInputs[d]) = 2

\* the cell has at least one listener, or an attached cell has it as an input
Observed(c) ==
  \/ Len(listeners[c]) > 0
  \/ \E r \in Cells : attached[r] /\ c \in Elems(inputs[r])

\* C26: every cell that has a listener, or is an input of an attached cell,
\* is itself attached.
C26_AttachmentReachesInputs ==
  \A c \in Cells : Observed(c) => attached[c]

\* C27: every attached cell has at least one listener or at least one
\* attached output.
C27_AttachedIsObserved ==
  \A c \in Cells :
    attached[c] =>
      \/ Len(listeners[c]) > 0
      \/ \E o \in Elems(outputs[c]) : attached[o]

\* C28: outputs is the inverse of inputs restricted to attached readers (c is
\* in x.outputs exactly when x is in c.inputs and c is attached), and neither
\* inputs nor outputs holds a cell twice.
C28_OutputsInverseOfInputs ==
  \A x \in Cells :
    /\ Elems(outputs[x]) = {c \in Cells : attached[c] /\ x \in Elems(inputs[c])}
    /\ Cardinality(Elems(outputs[x])) = Len(outputs[x])
    /\ Cardinality(Elems(inputs[x])) = Len(inputs[x])

\* the runs of d's compute function in r that returned: every get() call of
\* the function was made and none threw
ReturnedRuns(r, d) ==
  {i \in 1..Len(r.ran) : r.ran[i].cell = d /\ Len(r.ran[i].vals) = Reads(graph[d])}

\* the cells d's compute function called get() on in its last run that returned
LastRead(r, d) ==
  Elems(r.ran[CHOOSE i \in ReturnedRuns(r, d) :
                 \A j \in ReturnedRuns(r, d) : j <= i].read)

\* after the call that left r, every derived cell whose compute function ran
\* and returned has exactly the cells of that run as its inputs, each once
ExactInputs(r) ==
  \A d \in Deriveds :
    ReturnedRuns(r, d) # {} =>
      /\ Elems(r.inputs[d]) = LastRead(r, d)
      /\ Len(r.inputs[d]) = Cardinality(LastRead(r, d))

\* C29: after every successful evaluation of a derived cell, its inputs are
\* exactly the cells its compute function called get() on during its most
\* recent run: none read only by an earlier run remains, none is missing.
C29_InputsAreLastReads ==
  /\ ExactInputs([ran |-> ran, inputs |-> inputs])
  /\ \A c \in Cells : ExactInputs(get(State, c).st)
  /\ (batchDepth = 0 /\ CanWrite) =>
        \A w \in Writables : \A v \in Values : ExactInputs(set(State, w, v))

\* a cell with a dynamic dependency ran in the last call and read its third
\* argument; its second argument, which is still attached because an earlier
\* run read it, is no longer among its inputs
C29_Witness ==
  \E d \in Switches :
    /\ ReturnedRuns([ran |-> ran], d) # {}
    /\ graph[d].args[3] \in LastRead([ran |-> ran], d)
    /\ attached[graph[d].args[2]]
    /\ graph[d].args[2] \notin Elems(inputs[d])
    /\ graph[d].args[3] \in Elems(inputs[d])

\* the onAttach() and onDetach() calls made on c so far strictly alternate,
\* starting with onAttach()
Alternating(c) ==
  \A i \in 1..Len(hooks[c]) :
    hooks[c][i] = IF i % 2 = 1 THEN "onAttach" ELSE "onDetach"

\* the cell holds a subscription to the store
Subscribed(c) == c \in Elems(storeListeners)

\* C30: a cell backed by an external store holds a subscription to the store
\* exactly while it is observed (it has a listener or an attached cell reads
\* it), and its onAttach() and onDetach() calls strictly alternate, starting
\* with onAttach().
C30_SubscribedWhileObserved ==
  \A c \in Adapters :
    /\ Alternating(c)
    /\ Observed(c) <=> Subscribed(c)

\* the pending promises
Pending == {p \in 1..Len(promises) : promises[p].state = "pending"}

\* in r the promise p is resolved with the value its cell has after the call
\* that left r, and its listener is no longer subscribed
ResolvedWithNew(r, p) ==
  /\ r.promises[p].state = "resolved"
  /\ r.promises[p].val = Ideal(r, promises[p].cell)
  /\ Occurrences(r.listeners[promises[p].cell], resolver(p)) = 0

\* C21: the promise of toPromise(cell) is resolved with the cell's new value
\* at the first change of the cell after the call (a write outside a batch,
\* or the exit of a batch, that changes the cell), it keeps that value
\* whatever changes follow, and once resolved its listener is no longer
\* subscribed on the cell.
C21_ToPromise ==
  /\ (batchDepth = 0 /\ CanWrite) =>
        \A p \in Pending : \A w \in Writables : \A v \in Values :
          LET r == set(State, w, v)
          IN  Ideal(r, promises[p].cell) # Ideal(State, promises[p].cell) =>
                ResolvedWithNew(r, p)
  /\ (batchDepth = 1 /\ pre.stable) =>
        \A p \in Pending :
          Ideal(State, promises[p].cell) # pre.val[promises[p].cell] =>
            ResolvedWithNew(batchExit(State), p)
  /\ \A p \in 1..Len(promises) :
        promises[p].state = "resolved" =>
          /\ Occurrences(listeners[promises[p].cell], resolver(p)) = 0
          /\ CanWrite => \A w \in Writables : \A v \in Values :
                           set(State, w, v).promises[p] = promises[p]
          /\ batchDepth = 1 => batchExit(State).promises[p] = promises[p]

(***************************************************************************)
(* C22: no persisted cell is hydrated while migrate() is still running,    *)
(* and the value a cell is hydrated with is the one the storage holds      *)
(* under its key when migrate() has returned.                              *)
(***************************************************************************)
C22_HydratedAfterMigrations ==
  \A h \in 1..Len(journal.hydrated) :
    /\ ~journal.hydrated[h].migrating
    /\ tasks.migrate.pc = "done"
    /\ journal.migratedItems[journal.hydrated[h].cell] # Missing
    /\ journal.hydrated[h].val = parse(journal.migratedItems[journal.hydrated[h].cell])

\* a cell persisted while the migrations were pending is hydrated with a value
\* that a migration has written
C22_Witness ==
  /\ journal.hydrated # <<>>
  /\ journal.completed # <<>>
  /\ \E l \in 1..Len(tasks.loads) : tasks.loads[l].waited
  /\ journal.hydrated[1].val # persistGet(journal.items["book"], UNSET)

\* <<a, a + 1, ..., b - 1>>
Range(a, b) == [i \in 1..(IF b > a THEN b - a ELSE 0) |-> a + i - 1]

IsPrefix(p, q) == Len(p) <= Len(q) /\ \A i \in 1..Len(p) : p[i] = q[i]

\* the version the storage holds, as migrate() reads it
StoredVersion == persistGet(items[VERSION_KEY], 0)

\* the migrations started and the migrations completed are those of index
\* s..n-1 in ascending order, each once, and all of them once migrate() is done
MigrationsInOrder ==
  /\ IsPrefix(journal.migrated, Range(journal.version, persistor.migrations))
  /\ IsPrefix(journal.completed, journal.migrated)
  /\ Len(journal.migrated) <= Len(journal.completed) + 1
  /\ tasks.migrate.pc = "done" =>
       journal.completed = Range(journal.version, persistor.migrations)

\* the stored version is the number of migrations applied, n at the end
VersionFollows ==
  /\ StoredVersion = journal.version + Len(journal.completed)
  /\ tasks.migrate.pc = "done" => StoredVersion = persistor.migrations

(***************************************************************************)
(* C23, as stated: with stored version s <= n, exactly the migrations of   *)
(* index s..n-1 run, each once, in ascending order, and the stored version *)
(* is written as i+1 when migration i completes, so that it is the number  *)
(* of migrations applied, and n at the end.                                *)
(***************************************************************************)
C23_Migrations ==
  journal.version <= persistor.migrations => MigrationsInOrder /\ VersionFollows

(***************************************************************************)
(* C23, amended: the migrations of index s..n-1 run, each once, in         *)
(* ascending order; the stored version follows them when the persistor is  *)
(* not readOnly.                                                           *)
(***************************************************************************)
C23_MigrationsWritable ==
  journal.version <= persistor.migrations =>
    /\ MigrationsInOrder
    /\ ~persistor.readOnly => VersionFollows

\* migrate() has returned after running migration 1 alone on a storage of
\* version 1, and the storage holds version 2
C23_Witness ==
  /\ ~persistor.readOnly
  /\ journal.version = 1
  /\ tasks.migrate.pc = "done"
  /\ journal.completed = <<1>>
  /\ items[VERSION_KEY] = stringify(2)

\* the persisted cells that were loaded before the application wrote them
Loaded == {l \in 1..Len(tasks.loads) : tasks.loads[l].pc = "done" /\ ~tasks.loads[l].early}

\* flush() has resolved and no set() was called since it was called
Flushed == tasks.flush.pc = "resolved" /\ tasks.flush.revision = globalRevision

(***************************************************************************)
(* C24: once a persisted cell is loaded, is given a new value by set()     *)
(* calls, and flush() has resolved, the storage holds under the cell's key *)
(* the serialization of the cell's latest value; and the steps of persist  *)
(* and waitForReady write nothing to the storage.                          *)
(***************************************************************************)
C24_WriteBack ==
  /\ [](\A l \in Loaded :
          (/\ ~persistor.readOnly
           /\ Flushed
           /\ batchDepth = 0
           /\ \/ items[tasks.loads[l].key] # Missing
              \/ Ideal(State, tasks.loads[l].cell) # tasks.loads[l].val)
          => items[tasks.loads[l].key] = stringify(Ideal(State, tasks.loads[l].cell)))
  /\ [][tasks.loads' # tasks.loads \/ tasks.ready' # tasks.ready => items' = items]_vars

(***************************************************************************)
(* C25: a readOnly persistor never modifies the storage, whatever persist, *)
(* the migrations, set and flush do, and the cells it has loaded were      *)
(* restored from the storage.                                              *)
(***************************************************************************)
C25_ReadOnly ==
  persistor.readOnly =>
    /\ items = journal.items
    /\ \A l \in 1..Len(tasks.loads) :
         tasks.loads[l].pc = "done" /\ items[tasks.loads[l].key] # Missing =>
           \E h \in 1..Len(journal.hydrated) :
             /\ journal.hydrated[h].cell = tasks.loads[l].cell
             /\ journal.hydrated[h].val = parse(items[tasks.loads[l].key])

\* a readOnly persistor has run a migration, restored the cell and been
\* notified of a set() that gave the cell another value than the stored one
C25_Witness ==
  /\ persistor.readOnly
  /\ journal.completed # <<>>
  /\ journal.hydrated # <<>>
  /\ journal.saved > 0
  /\ tasks.flush.pc = "resolved"
  /\ batchDepth = 0
  /\ Ideal(State, "book") # parse(items["book"])

\* the cells queued in the pending list
Queued == Elems(dirtyObservables)

(***************************************************************************)
(* C33: between two calls, a cell is dirty exactly when it is queued in    *)
(* the pending list of the open batch; when no batch is open, also after a *)
(* flush that a listener or a computation ended by throwing, no cell is    *)
(* dirty and the pending list is empty.                                    *)
(***************************************************************************)
C33_DirtyIsQueued ==
  /\ \A c \in Cells : dirty[c] <=> c \in Queued
  /\ batchDepth = 0 => Queued = {}

(***************************************************************************)
(* C34: get() never returns the UNSET sentinel, and when the last call     *)
(* ran the compute function of a cell and it threw, a get() on the cell    *)
(* runs the compute function again, or throws.                             *)
(***************************************************************************)
C34_GetNeverUnset ==
  \A c \in Cells :
    LET g == get(State, c)
    IN  /\ ~g.st.thrown => g.ret # UNSET
        /\ ThrownRuns([ran |-> ran], c) # {} => g.st.thrown \/ RanFor(g.st, c)

\* the cells and arguments of the listener invocations f, in order
Notifications(f) ==
  [i \in 1..Len(f) |-> [cell |-> f[i].cell, val |-> f[i].val, prevVal |-> f[i].prevVal]]

\* state s with every listener that calls get() replaced by one that does not
Unreading(s) ==
  [s EXCEPT !.listeners =
     [c \in Cells |->
        [k \in 1..Len(s.listeners[c]) |->
           IF s.listeners[c][k].kind = "get" THEN log ELSE s.listeners[c][k]]]]

(***************************************************************************)
(* C39: a get() call inserted before a write, inside a batch after the     *)
(* writes, or inside a listener during the flush, changes neither the      *)
(* listener invocations that the write or the batch makes nor their        *)
(* arguments.                                                              *)
(***************************************************************************)
C39_ReadsDoNotInterfere ==
  /\ (batchDepth = 0 /\ CanWrite) =>
       \A w \in Writables, v \in Values :
         /\ \A c \in app.readable :
              Notifications(set(get(State, c).st, w, v).fired) =
                Notifications(set(State, w, v).fired)
         /\ Notifications(set(Unreading(State), w, v).fired) =
              Notifications(set(State, w, v).fired)
  /\ batchDepth = 1 =>
       /\ \A c \in app.readable :
            Notifications(batchExit(get(State, c).st).fired) =
              Notifications(batchExit(State).fired)
       /\ Notifications(batchExit(Unreading(State)).fired) =
            Notifications(batchExit(State).fired)

\* the invocations of the listeners of cell c in f, in order
InvocationsOf(f, c) == SelectSeq(f, LAMBDA e : e.cell = c)

\* state s when the call that led to it has returned
Returned(s) == [s EXCEPT !.fired = <<>>, !.ran = <<>>, !.thrown = FALSE]

\* in the invocations f of one listener, each prevVal is the val of the
\* invocation before it
Chained(f) == \A i \in 2..Len(f) : f[i].prevVal = f[i - 1].val

(***************************************************************************)
(* C32: the first invocation of a listener gets as prevVal the value the   *)
(* cell had, up to date, when the listener was subscribed, and every later *)
(* invocation gets as prevVal the val of the invocation before it.         *)
(***************************************************************************)
C32_PrevValChain ==
  (batchDepth = 0 /\ CanWrite) =>
    \A c \in app.subscribable, w \in Writables, v \in Values :
      LET s1 == set(Returned(subscribe(State, c, log)), w, v)
          s2 == set(Returned(s1), w, updater(v))
      IN  /\ listeners[c] = <<>> =>
                /\ \A i \in 1..Len(InvocationsOf(s1.fired, c)) :
                     i = 1 => InvocationsOf(s1.fired, c)[i].prevVal = Ideal(State, c)
                /\ Chained(InvocationsOf(s1.fired \o s2.fired, c))

\* the last run of d's compute function in r: the cells it read and the
\* values get() returned for them
LastRun(r, d) ==
  r.ran[CHOOSE i \in 1..Len(r.ran) :
          r.ran[i].cell = d /\ \A j \in (i + 1)..Len(r.ran) : r.ran[j].cell # d]

\* in state s every cell read in the run has the value the run read
Unchanged(s, run) == \A k \in 1..Len(run.read) : Ideal(s, run.read[k]) = run.vals[k]

\* after the evaluation of d that left r, a second get(), and a write that
\* leaves the cells d read as they are followed by a get(), do not run d's
\* compute function
Memoized(r, d) ==
  /\ ~RanFor(get(Returned(r), d).st, d)
  /\ (RanFor(r, d) /\ CanWrite) =>
       \A w \in Writables, v \in Values :
         Unchanged(Written(r, w, v), LastRun(r, d)) =>
           /\ ~RanFor(set(Returned(r), w, v), d)
           /\ ~RanFor(get(Returned(set(Returned(r), w, v)), d).st, d)

Touched ==
  UNION ({set(State, w, v).touched : w \in {c \in Writables : CanWrite}, v \in Values}
         \cup {batchExit(State).touched : k \in {1} \cap 1..batchDepth})

(***************************************************************************)
(* C36: globalRevision and dirtyObservables are assigned only while        *)
(* batchDepth is greater than 0, by set(), markAsDirty() and the flush.    *)
(***************************************************************************)
C36_MutatedInBatchOnly == \A m \in Touched : m.depth > 0

\* r is what the flush of the pending list of the current state leaves: no
\* cell pending or dirty, every queued cell refreshed, and the listeners of
\* every written cell whose write is still staged invoked once with it
FlushedAll(r) ==
  /\ r.dirtyObservables = <<>>
  /\ \A c \in Cells : ~r.dirty[c]
  /\ \A c \in Queued : r.refreshRevision[c] = globalRevision
  /\ \A w \in Writables \cap Queued :
       next[w] # UNSET =>
         /\ r.val[w] = next[w]
         /\ (val[w] # UNSET /\ val[w] # next[w]) =>
              InvokedOnce(r.fired, w, listeners[w], next[w], val[w])

(***************************************************************************)
(* C37: batchDepth is never negative; batch(fn) leaves it as it found it   *)
(* when fn returns and when fn throws; when fn throws in the outermost     *)
(* batch the writes it has staged are flushed, their cells refreshed and   *)
(* their listeners invoked, before the exception leaves batch().           *)
(***************************************************************************)
C37_BatchBalanced ==
  /\ batchDepth >= 0
  /\ batchExit(batchEnter(State)).batchDepth = batchDepth
  /\ finallyExit(batchEnter(State)).batchDepth = batchDepth
  /\ batchDepth >= 1 =>
       /\ finallyExit(State).thrown
       /\ finallyExit(State).batchDepth = batchDepth - 1
       /\ batchDepth = 1 => FlushedAll(finallyExit(State))

\* what every get(), every set() and every batch exit that can follow the
\* current state leaves
Followers ==
  {get(State, c).st : c \in Cells}
  \cup {set(State, w, v) : w \in {c \in Writables : CanWrite}, v \in Values}
  \cup {batchExit(State) : k \in {1} \cap 1..batchDepth}

\* the cells the run of a compute function called get() on and got a value
\* from, computed from the function and the values it was given
OwnReads(run) ==
  {argAt(graph[run.cell], i, SubSeq(run.vals, 1, i - 1)) : i \in 1..Len(run.vals)}

(***************************************************************************)
(* C35: whatever call follows, every run of a compute function has         *)
(* recorded as inputs exactly the cells its own function called get() on,  *)
(* so none read by a cell it evaluated on the way; every evaluation,       *)
(* returning or throwing, left the hook onGet as it found it; and the hook *)
(* is undefined when the call is over.                                     *)
(***************************************************************************)
C35_TrackingNested ==
  \A r \in Followers :
    /\ \A k \in 1..Len(r.ran) : Elems(r.ran[k].read) = OwnReads(r.ran[k])
    /\ \A k \in 1..Len(r.tracked) : r.tracked[k].after = r.tracked[k].before
    /\ r.onGet = NoHook

\* the last call evaluated e = d.get() + y.get(): d ran inside the run of e
\* and recorded g and x, then e recorded d and y
C35_Witness ==
  /\ Len(ran) = 2
  /\ ran[1].cell = "d" /\ ran[1].read = <<"g", "x">>
  /\ ran[2].cell = "e" /\ ran[2].read = <<"d", "y">>

\* what every outermost set() and batch exit that can follow the current
\* state leaves when it returns and a listener has called reset() in its flush
Outermost ==
  {r \in {set(State, w, v) : w \in {c \in Writables : CanWrite /\ batchDepth = 0},
                             v \in Values}
         \cup {batchExit(State) : k \in {1} \cap {batchDepth}} :
     ~r.thrown /\ \E k \in 1..Len(r.steps) : r.steps[k].op = "reset"}

\* the calls of reset() the listeners made in the call that left r
Resets(r) == {k \in 1..Len(r.steps) : r.steps[k].op = "reset"}

\* at step k of r, reset() returned with its write flushed
FlushedOnReturn(r, k) ==
  /\ ~r.steps[k].dirty
  /\ r.steps[k].next = UNSET
  /\ r.steps[k].val = graph[r.steps[k].cell].defaultVal

\* the steps of r after step k that calls of reset() made after step k did
\* not make: those of the flush loops that were running at step k
OuterSteps(r, k) ==
  {j \in (k + 1)..Len(r.steps) :
     ~\E n \in Resets(r) : r.steps[n].from >= k /\ r.steps[n].from < j /\ j < n}

\* the listener invocations of r made after step k, and not by the flush of
\* a call of reset() made after step k
OuterFired(r, k) ==
  {i \in (r.steps[k].fired + 1)..Len(r.fired) :
     ~\E n \in Resets(r) :
        r.steps[n].from >= k /\ r.steps[n].firedFrom < i /\ i <= r.steps[n].fired}

\* the flush of the call of reset() recorded at step k did not refresh cell
\* c; the flush loops running at step k then called refresh() on c once and
\* invoked each listener of c at most once per subscription, with the value
\* c has in r when nothing refreshed c again
SettledOnce(r, k, c) ==
  /\ \A j \in (r.steps[k].from + 1)..(k - 1) :
       ~(r.steps[j].op = "refresh" /\ r.steps[j].cell = c)
  /\ Cardinality({j \in OuterSteps(r, k) :
                    r.steps[j].op = "refresh" /\ r.steps[j].cell = c}) = 1
  /\ \A i \in OuterFired(r, k) :
       r.fired[i].cell = c =>
         /\ Cardinality({j \in OuterFired(r, k) :
                           r.fired[j].cell = c /\ r.fired[j].listener = r.fired[i].listener})
              <= Occurrences(r.listeners[c], r.fired[i].listener)
         /\ Cardinality({j \in (k + 1)..Len(r.steps) :
                           r.steps[j].op = "refresh" /\ r.steps[j].cell = c}) = 1
              => r.fired[i].val = r.val[c]

\* in r no cell is dirty or pending and every attached cell holds the value
\* the latest writes determine
Settled(r) ==
  /\ r.dirtyObservables = <<>>
  /\ \A c \in Cells : ~r.dirty[c]
  /\ \A c \in Cells : r.attached[c] => r.val[c] = Ideal(r, c)

(***************************************************************************)
(* C38: when a listener has called reset(), and so set(), on a writable    *)
(* cell during a flush, the write was flushed when reset() returned; every *)
(* cell that was pending then was refreshed once by the flush it was       *)
(* pending in, and its listeners invoked at most once, with its final      *)
(* value; and when the outermost call returns no cell is dirty and every   *)
(* attached cell holds the value its evaluation yields.                    *)
(***************************************************************************)
C38_ListenerWrites ==
  \A r \in Outermost :
    /\ \A k \in Resets(r) :
         /\ FlushedOnReturn(r, k)
         /\ \A c \in r.steps[k].pending : SettledOnce(r, k, c)
    /\ Settled(r)

====
